---- MODULE Spec2Model ----
(***************************************************************************)
(* Model of terraform-provider-conductor: the manifest reconciliation      *)
(* engine (default elision, merge, plan equality) and the workflow         *)
(* version state machine (create / read / update / delete of a workflow    *)
(* definition against a Conductor server).                                 *)
(*                                                                         *)
(* Four specifications share the module:                                   *)
(*   SpecElide  the elision passes applied to bounded manifest trees       *)
(*   SpecPlan   ModifyPlan of both resources on bounded manifest pairs     *)
(*   SpecOps    one workflow operation from every server content           *)
(*   Spec       the life cycle of the workflow resource of one name        *)
(***************************************************************************)
EXTENDS Integers, Sequences, FiniteSets, TLC

(***************************************************************************)
(* Bounds of the model.                                                    *)
(***************************************************************************)
\* largest number (besides the table defaults) that occurs in a generic tree
MaxNum == 1
\* how many times an elision pass is applied to one tree
MaxPasses == 2
\* largest workflow version the server holds or a manifest requests, when
\* one operation is applied to every server content
MaxVersion == 3
\* the same, in the life cycle of the resource
MaxLifeVersion == 2
\* largest workflow version when a handler runs call by call beside other
\* clients
MaxLoopVersion == 2
\* the writes of other clients while a handler runs
MaxOthers == 2

(***************************************************************************)
(* JSON values as encoding/json decodes them into interface{}: nil, bool,  *)
(* float64, string, map[string]interface{} and []interface{}.  A value is  *)
(* a tagged record; a mapping is a function on its keys (so equality does  *)
(* not depend on key order), a sequence is a tuple (so it does depend on   *)
(* element order), which is what reflect.DeepEqual compares.               *)
(***************************************************************************)
Null == [t |-> "null"]
B(b) == [t |-> "bool", b |-> b]
\* a float64: n + 1/2 when half (the model needs no other fraction)
Num(n, half) == [t |-> "num", n |-> n, half |-> half]
N(n) == Num(n, FALSE)
S(s) == [t |-> "str", s |-> s]
M(m) == [t |-> "map", m |-> m]
A(a) == [t |-> "arr", a |-> a]

EmptyMap == [k \in {} |-> Null]

\* delete(m, k) for every k of ks
Remove(m, ks) == [k \in DOMAIN m \ ks |-> m[k]]

\* m[k] = v
Put(m, k, v) == [x \in DOMAIN m \cup {k} |-> IF x = k THEN v ELSE m[x]]

DeepEqual(x, y) == x = y

(***************************************************************************)
(* The default tables and the server-owned fields.                         *)
(***************************************************************************)
auditableFieldsToIgnore == {"createTime", "updateTime", "createdBy", "updatedBy"}

defaultTaskDefValues ==
    [ backoffScaleFactor          |-> N(1),
      rateLimitFrequencyInSeconds |-> N(1),
      responseTimeoutSeconds      |-> N(3600),
      retryCount                  |-> N(3),
      retryDelaySeconds           |-> N(60),
      retryLogic                  |-> S("FIXED"),
      timeoutPolicy               |-> S("TIME_OUT_WF") ]

defaultWorkflowDefValues ==
    [ schemaVersion |-> N(2),
      timeoutPolicy |-> S("ALERT_ONLY"),
      enforceSchema |-> B(TRUE),
      restartable   |-> B(TRUE) ]

defaultWorkflowDefTaskValues == [ type |-> S("SIMPLE") ]

(***************************************************************************)
(* Default elision.                                                        *)
(***************************************************************************)
isPrimitiveValue(value) == value.t \in {"bool", "num", "str"}

\* the table entry of the key, else the zero value of the value's own type
getPrimitiveDefaultValue(key, value, defaultValues) ==
    IF key \in DOMAIN defaultValues THEN defaultValues[key]
    ELSE IF value.t = "bool" THEN B(FALSE)
    ELSE IF value.t = "num" THEN N(0)
    ELSE IF value.t = "str" THEN S("")
    ELSE Null

\* a faulty variant: the zero-value fallback is applied although the table has an entry
cleanupDeletesZeroToo(key, value, defaultValues) ==
    \/ value = Null
    \/ /\ isPrimitiveValue(value)
       /\ \/ DeepEqual(value, getPrimitiveDefaultValue(key, value, defaultValues))
          \/ DeepEqual(value, getPrimitiveDefaultValue(key, value, EmptyMap))
    \/ value.t = "map" /\ DOMAIN value.m = {}
    \/ value.t = "arr" /\ Len(value.a) = 0

\* the body of the range loop: TRUE when the key is deleted
cleanupDeletes(key, value, defaultValues) ==
    IF value = Null THEN TRUE
    ELSE IF isPrimitiveValue(value)
    THEN LET defaultValue == getPrimitiveDefaultValue(key, value, defaultValues)
         IN  IF defaultValue = Null THEN FALSE
             ELSE DeepEqual(value, defaultValue)
    ELSE IF value.t = "map" THEN DOMAIN value.m = {}
    ELSE IF value.t = "arr" THEN Len(value.a) = 0
    ELSE FALSE

cleanupManifestDefaults(manifestMap, defaultValues) ==
    [ key \in { k \in DOMAIN manifestMap :
                  ~cleanupDeletes(k, manifestMap[k], defaultValues) }
        |-> manifestMap[key] ]

\* one element of the tasks sequence: mappings are elided, the rest is skipped
cleanupTask(currentTask) ==
    IF currentTask.t = "map"
    THEN M(cleanupManifestDefaults(currentTask.m, defaultWorkflowDefTaskValues))
    ELSE currentTask

\* a faulty variant: the tasks pass removes the task elements that elide to nothing
workflowDefCleanupDropsEmptyTasks(currentManifestMap) ==
    LET m == cleanupManifestDefaults(Remove(currentManifestMap, auditableFieldsToIgnore),
                                     defaultWorkflowDefValues)
    IN  IF "tasks" \notin DOMAIN m THEN m
        ELSE IF m["tasks"].t # "arr" THEN m
        ELSE Put(m, "tasks",
                 A(SelectSeq([i \in 1..Len(m["tasks"].a) |-> cleanupTask(m["tasks"].a[i])],
                             LAMBDA e : e # M(EmptyMap))))

workflowDefCleanup(currentManifestMap) ==
    LET m == cleanupManifestDefaults(Remove(currentManifestMap, auditableFieldsToIgnore),
                                     defaultWorkflowDefValues)
    IN  IF "tasks" \notin DOMAIN m THEN m
        ELSE IF m["tasks"].t # "arr" THEN m
        ELSE Put(m, "tasks",
                 A([i \in 1..Len(m["tasks"].a) |-> cleanupTask(m["tasks"].a[i])]))

(***************************************************************************)
(* Merge.                                                                  *)
(***************************************************************************)
\* a faulty variant: only the keys the target lacks are copied
mergeManifestMapsAbsentOnly(from, to) ==
    [ key \in DOMAIN to \cup DOMAIN from |->
        IF key \in DOMAIN to THEN to[key] ELSE from[key] ]

\* a faulty variant: every key of the source is copied
mergeManifestMapsOverwrite(from, to) ==
    [ key \in DOMAIN to \cup DOMAIN from |->
        IF key \in DOMAIN from THEN from[key] ELSE to[key] ]

mergeManifestMaps(from, to) ==
    [ key \in DOMAIN to \cup DOMAIN from |->
        IF key \in DOMAIN from
           /\ (key \notin DOMAIN to \/ isPrimitiveValue(from[key]))
        THEN from[key]
        ELSE to[key] ]

(***************************************************************************)
(* State.                                                                  *)
(***************************************************************************)
VARIABLES
    \* SpecElide: one tree that the elision pass mutates in place
    passKind,        \* "doc": cleanupManifestDefaults, "wf": workflowDefCleanup
    defaultValues,   \* the default table of a "doc" pass
    origManifest,    \* the tree before the first pass
    prevManifest,    \* the tree before the last pass
    manifestMap,     \* the tree
    passes,          \* passes applied so far
    \* SpecPlan: one ModifyPlan call
    planClass,       \* "task" or "workflow"
    planManifest,    \* req.Plan: the proposed manifest
    stateManifest,   \* req.State: the current manifest
    planStateVersion,    \* req.State: the tracked version (0 for a task definition)
    respPlan,        \* resp.Plan: [manifest, version], version -1 when unknown
    planDone,        \* ModifyPlan has run
    \* Spec: the workflow resource of one name and the server behind it
    srv,             \* the server: version -> stored manifest of the name
    st,              \* the tracked state: [present, manifest, version]
    last,            \* the last operation: its input, remote calls and result
    manualRun,       \* the versions tracked by the last two successful manual
                     \* updates of the current run of updates and reads
    \* SpecMerge: one merge call
    mergeKind,       \* "doc": mergeManifestMaps, "wf": workflowDefMerge
    fromMap,         \* the map merged from
    intoMap,         \* the map merged into, before the call
    toMap,           \* the map merged into, which the call mutates in place
    mergeDone,       \* the merge has run
    \* the task resource of one name and the server behind it
    tsrv,            \* the server: [present, manifest], the stored definition
    tst,             \* the tracked state: [present, manifest, version 0]
    tlast,           \* the last operation, "idle" when the resource is not in use
    \* SpecDelete, SpecClients: handlers run call by call beside other clients
    loop,            \* the delete loop of one handler
    cc               \* the clients that create or update at the same time

evars == <<passKind, defaultValues, origManifest, prevManifest, manifestMap, passes>>
pvars == <<planClass, planManifest, stateManifest, planStateVersion, respPlan, planDone>>
lvars == <<srv, st, last, manualRun>>
mvars == <<mergeKind, fromMap, intoMap, toMap, mergeDone>>
tvars == <<tsrv, tst, tlast>>
cvars == <<loop, cc>>
vars == <<evars, pvars, lvars, mvars, tvars, cvars>>

\* the variables of the other specifications, parked
ElideIdle ==
    /\ passKind = "none" /\ defaultValues = EmptyMap /\ origManifest = EmptyMap
    /\ prevManifest = EmptyMap /\ manifestMap = EmptyMap /\ passes = 0

PlanIdle ==
    /\ planClass = "none" /\ planManifest = EmptyMap /\ stateManifest = EmptyMap
    /\ planStateVersion = 0 /\ respPlan = [manifest |-> EmptyMap, version |-> 0]
    /\ planDone = FALSE

NoState == [present |-> FALSE, manifest |-> EmptyMap, version |-> 0]

NoOperation ==
    [op |-> "none", mode |-> "none", plan |-> EmptyMap, res |-> "none",
     calls |-> <<>>, fault |-> [at |-> 0, kind |-> "none"]]

LifeIdle ==
    /\ srv = EmptyMap /\ st = NoState /\ last = NoOperation /\ manualRun = <<>>

MergeIdle ==
    /\ mergeKind = "none" /\ fromMap = EmptyMap /\ intoMap = EmptyMap
    /\ toMap = EmptyMap /\ mergeDone = FALSE

NoTask == [present |-> FALSE, manifest |-> EmptyMap]

TaskIdle ==
    /\ tsrv = NoTask /\ tst = NoState /\ tlast = [NoOperation EXCEPT !.op = "idle"]

NoDelete ==
    [pc |-> "idle", currentVersion |-> 0, reads |-> <<>>, deletes |-> <<>>,
     nreads |-> 0, others |-> 0, start |-> 0, unretired |-> 0]

ConcIdle ==
    /\ loop = NoDelete /\ cc = <<>>

(***************************************************************************)
(* SpecElide: inputs.                                                      *)
(***************************************************************************)
TreeKeys == {"name", "retryCount", "timeoutPolicy"}

TreeVals ==
    {Null, B(TRUE), B(FALSE), S(""), S("t1"), S("TIME_OUT_WF"),
     M(EmptyMap), M([a |-> N(1)]), A(<<>>), A(<<N(1)>>)}
    \cup {N(n) : n \in 0..MaxNum} \cup {N(3)}

Trees == UNION {[D -> TreeVals] : D \in SUBSET TreeKeys}

\* default tables: the task table, the empty table, and tables with one entry
\* of every shape (a default of the value's type, of another type, null, a mapping)
Tables ==
    {defaultTaskDefValues, EmptyMap}
    \cup {[retryCount |-> v] : v \in {N(0), N(MaxNum), S("t1"), Null, M(EmptyMap)}}
    \cup {[name |-> S("t1"), timeoutPolicy |-> B(FALSE)]}

ScenarioATree == [name |-> S("t1"), retryCount |-> N(3), timeoutPolicy |-> S("TIME_OUT_WF")]

\* workflow trees: a few document-level keys and every shape of "tasks"
WfDocs ==
    UNION {[D -> {B(TRUE), B(FALSE), S("w1"), S(""), N(0), N(MaxNum), Null}] :
             D \in SUBSET {"name", "restartable", "createTime"}}

TaskElems ==
    {M(EmptyMap), M([name |-> S("t1")]), M([name |-> S("t1"), type |-> S("SIMPLE")]),
     M([type |-> S("SIMPLE")]), M([name |-> S("t2"), optional |-> B(FALSE), type |-> S("HTTP")]),
     S("x"), Null}

TasksVals ==
    {A(<<>>), S("x"), M([a |-> N(1)])}
    \cup {A(<<e>>) : e \in TaskElems}
    \cup {A(<<e, f>>) : e \in TaskElems, f \in TaskElems}

WfTrees == WfDocs \cup {Put(d, "tasks", tv) : d \in WfDocs, tv \in TasksVals}

InitElide ==
    /\ passes = 0
    /\ \/ passKind = "doc" /\ defaultValues \in Tables /\ manifestMap \in Trees
       \/ passKind = "wf" /\ defaultValues = EmptyMap /\ manifestMap \in WfTrees
    /\ origManifest = manifestMap
    /\ prevManifest = manifestMap
    /\ ConcIdle
    /\ PlanIdle
    /\ LifeIdle
    /\ MergeIdle
    /\ TaskIdle

CleanupDoc ==
    /\ passKind = "doc"
    /\ passes < MaxPasses
    /\ prevManifest' = manifestMap
    /\ manifestMap' = cleanupManifestDefaults(manifestMap, defaultValues)
    /\ passes' = passes + 1
    /\ UNCHANGED <<passKind, defaultValues, origManifest, pvars, lvars, mvars, tvars, cvars>>

CleanupWf ==
    /\ passKind = "wf"
    /\ passes < MaxPasses
    /\ prevManifest' = manifestMap
    /\ manifestMap' = workflowDefCleanup(manifestMap)
    /\ passes' = passes + 1
    /\ UNCHANGED <<passKind, defaultValues, origManifest, pvars, lvars, mvars, tvars, cvars>>

NextElide == CleanupDoc \/ CleanupWf

SpecElide == InitElide /\ [][NextElide]_vars

(***************************************************************************)
(* SpecPlan: ModifyPlan of the task and of the workflow resource.          *)
(***************************************************************************)
\* the elision pass ModifyPlan runs on both decoded copies
planCleanup(class, def) ==
    IF class = "task" THEN cleanupManifestDefaults(def, defaultTaskDefValues)
    ELSE workflowDefCleanup(def)

\* a faulty variant: the decoded manifests are compared as they are
modifyPlanEqualRaw(class, planDef, stateDef) == DeepEqual(planDef, stateDef)

\* reflect.DeepEqual(planDef, stateDef) after the two cleanups
modifyPlanEqual(class, planDef, stateDef) ==
    DeepEqual(planCleanup(class, planDef), planCleanup(class, stateDef))

PlanTaskManifests ==
    { Remove([a \in {"name", "retryCount", "timeoutPolicy", "createTime", "inputKeys"} |->
                CASE a = "name" -> S("t1")
                  [] a = "retryCount" -> rc
                  [] a = "timeoutPolicy" -> tp
                  [] a = "createTime" -> ct
                  [] a = "inputKeys" -> ik],
             { a \in {"retryCount", "timeoutPolicy", "createTime", "inputKeys"} :
                 \/ a = "retryCount" /\ rc = Null
                 \/ a = "timeoutPolicy" /\ tp = Null
                 \/ a = "createTime" /\ ct = Null
                 \/ a = "inputKeys" /\ ik = Null }) :
        rc \in {Null, N(0), N(3), N(MaxNum)},
        tp \in {Null, S(""), S("TIME_OUT_WF")},
        ct \in {Null, N(MaxNum)},
        ik \in {Null, A(<<>>), A(<<S("a"), S("b")>>), A(<<S("b"), S("a")>>)} }

PlanTasksVals ==
    {Null, A(<<>>),
     A(<<M([name |-> S("t1")])>>),
     A(<<M([name |-> S("t1"), type |-> S("SIMPLE")])>>),
     A(<<M([name |-> S("t1")]), M([name |-> S("t2")])>>),
     A(<<M([name |-> S("t2")]), M([name |-> S("t1")])>>)}

PlanWorkflowManifests ==
    { Remove([a \in {"name", "restartable", "createTime", "tasks", "version"} |->
                CASE a = "name" -> S("w1")
                  [] a = "restartable" -> rs
                  [] a = "createTime" -> ct
                  [] a = "tasks" -> tk
                  [] a = "version" -> vs],
             { a \in {"restartable", "createTime", "tasks", "version"} :
                 \/ a = "restartable" /\ rs = Null
                 \/ a = "createTime" /\ ct = Null
                 \/ a = "tasks" /\ tk = Null
                 \/ a = "version" /\ vs = Null }) :
        rs \in {Null, B(TRUE), B(FALSE)},
        ct \in {Null, N(MaxNum)},
        tk \in PlanTasksVals,
        vs \in {Null, N(1)} }

InitPlan ==
    /\ \/ /\ planClass = "task"
          /\ planManifest \in PlanTaskManifests
          /\ stateManifest \in PlanTaskManifests
          /\ planStateVersion = 0
       \/ /\ planClass = "workflow"
          /\ planManifest \in PlanWorkflowManifests
          /\ stateManifest \in PlanWorkflowManifests
          /\ planStateVersion = 1
    /\ respPlan = [manifest |-> planManifest, version |-> -1]
    /\ planDone = FALSE
    /\ ConcIdle
    /\ ElideIdle
    /\ LifeIdle
    /\ MergeIdle
    /\ TaskIdle

\* TaskDefResource.ModifyPlan and WorkflowDefResource.ModifyPlan
ModifyPlan ==
    /\ planClass \in {"task", "workflow"}
    /\ ~planDone
    /\ planDone' = TRUE
    /\ respPlan' = IF modifyPlanEqual(planClass, planManifest, stateManifest)
                   THEN [manifest |-> stateManifest, version |-> planStateVersion]
                   ELSE respPlan
    /\ UNCHANGED <<planClass, planManifest, stateManifest, planStateVersion, evars, lvars, mvars, tvars, cvars>>

NextPlan == ModifyPlan

SpecPlan == InitPlan /\ [][NextPlan]_vars

(***************************************************************************)
(* Spec: the workflow resource.  The remote side.                          *)
(***************************************************************************)
Response(err, status, body) == [err |-> err, status |-> status, body |-> body]

\* the server answers GET metadata/workflow/{name} with the latest version
serverLatest(s) == CHOOSE v \in DOMAIN s : \A w \in DOMAIN s : w <= v

serverGet(s) ==
    IF DOMAIN s = {} THEN Response(FALSE, 404, EmptyMap)
    ELSE Response(FALSE, 200, s[serverLatest(s)])

\* what the server keeps of a written body: the body, the defaults of the
\* fields the body leaves out, and the audit field, which it sets itself
serverFillTask(task) ==
    IF task.t = "map"
    THEN M(mergeManifestMaps(task.m, [type |-> S("SIMPLE"), optional |-> B(FALSE)]))
    ELSE task

serverStored(body) ==
    LET filled == mergeManifestMaps(
                      Remove(body, {"tasks"} \cup auditableFieldsToIgnore),
                      [schemaVersion |-> N(2), restartable |-> B(TRUE), createTime |-> N(1)])
    IN  IF "tasks" \in DOMAIN body /\ body["tasks"].t = "arr"
        THEN Put(filled, "tasks",
                 A([i \in 1..Len(body["tasks"].a) |-> serverFillTask(body["tasks"].a[i])]))
        ELSE filled

\* PUT metadata/workflow stores the body under the version it carries
serverPut(s, body) == Put(s, body["version"].n, serverStored(body))

\* DELETE metadata/workflow/{name}/{version} retires the version
serverDelete(s, version) == Remove(s, {version})

\* One remote call may go wrong in an operation: call number `at` fails in
\* transport, or is answered 500 or 404, or (a DELETE) is answered 200
\* without the version being retired.
NoFault == [at |-> 0, kind |-> "none"]
GetFaults(i) == {[at |-> i, kind |-> k] : k \in {"transport", "status500"}}
PutFaults(i) == {[at |-> i, kind |-> k] : k \in {"transport", "status500", "status404"}}
DelFaults(i) == {[at |-> i, kind |-> k] : k \in {"transport", "status500", "noretire"}}

\* client.do for call number i of the operation
do(i, fault, answer) ==
    IF fault.at # i THEN answer
    ELSE IF fault.kind = "transport" THEN Response(TRUE, 0, EmptyMap)
    ELSE IF fault.kind = "status500" THEN Response(FALSE, 500, EmptyMap)
    ELSE IF fault.kind = "status404" THEN Response(FALSE, 404, EmptyMap)
    ELSE answer

\* the record of one remote call: method, version addressed or written (0 for
\* a GET), body sent, status received (0: transport failure), body received
Call(method, version, body, response) ==
    [m |-> method, v |-> version, body |-> body,
     status |-> IF response.err THEN 0 ELSE response.status,
     got |-> IF response.err THEN EmptyMap ELSE response.body]

(***************************************************************************)
(* The version field of a manifest.                                        *)
(***************************************************************************)
\* a faulty variant: a fraction is truncated and version 0 passes
getWorkflowVersionOptionalLax(m) ==
    IF "version" \notin DOMAIN m
    THEN [version |-> 0, exists |-> FALSE, err |-> FALSE]
    ELSE IF m["version"].t # "num"
    THEN [version |-> 0, exists |-> FALSE, err |-> TRUE]
    ELSE [version |-> m["version"].n, exists |-> TRUE, err |-> FALSE]

getWorkflowVersionOptionalFromManifest(m) ==
    IF "version" \notin DOMAIN m
    THEN [version |-> 0, exists |-> FALSE, err |-> FALSE]
    ELSE IF m["version"].t # "num"
    THEN [version |-> 0, exists |-> FALSE, err |-> TRUE]
    ELSE IF m["version"].half
    THEN [version |-> 0, exists |-> FALSE, err |-> TRUE]
    ELSE IF m["version"].n < 1
    THEN [version |-> 0, exists |-> FALSE, err |-> TRUE]
    ELSE [version |-> m["version"].n, exists |-> TRUE, err |-> FALSE]

getWorkflowVersionFromManifest(m) ==
    LET r == getWorkflowVersionOptionalFromManifest(m)
    IN  IF r.err \/ ~r.exists THEN [version |-> 0, err |-> TRUE]
        ELSE [version |-> r.version, err |-> FALSE]

(***************************************************************************)
(* Create.                                                                 *)
(***************************************************************************)
\* a faulty variant: the conflict test lets a lower version pass
versionConflictNever(version, currentVersion) == FALSE

\* version < currentVersion, the test of a manual version against the latest
versionConflict(version, currentVersion) == version < currentVersion

\* a faulty variant: the proposed manifest is compared without the elision
createDriftEqualRaw(planMap, currentManifestMap) ==
    DeepEqual(planMap, Remove(currentManifestMap, {"version"}))

\* the drift check of an auto-mode create
createDriftEqual(planMap, currentManifestMap) ==
    DeepEqual(workflowDefCleanup(planMap),
              workflowDefCleanup(Remove(currentManifestMap, {"version"})))

\* a faulty variant: the latest version is written again
autoCreateVersionSame(currentVersion) == currentVersion

\* the version an auto-mode create writes over an existing, different manifest
autoCreateVersion(currentVersion) == currentVersion + 1

\* a faulty variant: a manual version is written only over a different manifest
manualShouldCreateOnDrift(planMap, currentManifestMap) ==
    ~DeepEqual(workflowDefCleanup(planMap), workflowDefCleanup(currentManifestMap))

\* return version, true: a manual version that is not in conflict is written
manualShouldCreate(planMap, currentManifestMap) == TRUE

\* a faulty variant: the server-owned fields stay in the body
stripAuditableNot(body) == body

\* the loop that deletes the server-owned fields from the body to send
stripAuditable(body) == Remove(body, auditableFieldsToIgnore)

CheckResult(err, version, should, calls, planMap) ==
    [err |-> err, createVersion |-> version, shouldCreate |-> should,
     calls |-> calls, planMap |-> planMap]

checkExistingVersionBeforeCreate(s, planMap, fault) ==
    LET ver == getWorkflowVersionOptionalFromManifest(planMap)
        response == do(1, fault, serverGet(s))
        get == <<Call("GET", 0, EmptyMap, response)>>
        cur == getWorkflowVersionFromManifest(response.body)
    IN  IF ver.err THEN CheckResult(TRUE, 0, FALSE, <<>>, planMap)
        ELSE IF response.err THEN CheckResult(TRUE, 0, FALSE, get, planMap)
        ELSE IF response.status = 404
        THEN CheckResult(FALSE, IF ver.exists THEN ver.version ELSE 1, TRUE, get, planMap)
        ELSE IF response.status # 200 THEN CheckResult(TRUE, 0, FALSE, get, planMap)
        ELSE IF cur.err THEN CheckResult(TRUE, 0, FALSE, get, planMap)
        ELSE IF ver.exists
        THEN IF versionConflict(ver.version, cur.version)
             THEN CheckResult(TRUE, 0, FALSE, get, planMap)
             ELSE CheckResult(FALSE, ver.version,
                              manualShouldCreate(planMap, response.body), get, planMap)
        \* auto version: the plan map is elided in place before it is compared
        ELSE IF createDriftEqual(planMap, response.body)
        THEN CheckResult(FALSE, cur.version, FALSE, get, workflowDefCleanup(planMap))
        ELSE CheckResult(FALSE, autoCreateVersion(cur.version), TRUE, get,
                         workflowDefCleanup(planMap))

Outcome(res, calls, s, state) == [res |-> res, calls |-> calls, srv |-> s, st |-> state]

Tracked(manifest, version) == [present |-> TRUE, manifest |-> manifest, version |-> version]

\* WorkflowDefResource.Create on the planned manifest
CreateOutcome(s, plan, fault) ==
    LET chk == checkExistingVersionBeforeCreate(s, plan, fault)
        body == Put(stripAuditable(chk.planMap), "version", N(chk.createVersion))
        response == do(2, fault, Response(FALSE, 200, EmptyMap))
        calls == Append(chk.calls, Call("PUT", chk.createVersion, body, response))
    IN  IF chk.err THEN Outcome("error", chk.calls, s, NoState)
        ELSE IF ~chk.shouldCreate
        THEN Outcome("ok", chk.calls, s, Tracked(plan, chk.createVersion))
        ELSE IF response.err THEN Outcome("error", calls, s, NoState)
        ELSE IF response.status # 200 THEN Outcome("error", calls, s, NoState)
        ELSE Outcome("ok", calls, serverPut(s, body), Tracked(plan, chk.createVersion))

(***************************************************************************)
(* Update.                                                                 *)
(***************************************************************************)
\* the latest-version check of a manual update: "ok", "error", or "panic"
\* when the call failed in transport (the nil response is dereferenced)
verifyValidVersionForUpdate(s, planVersion, fault) ==
    LET response == do(1, fault, serverGet(s))
        get == <<Call("GET", 0, EmptyMap, response)>>
        cur == getWorkflowVersionFromManifest(response.body)
    IN  IF response.err THEN [res |-> "panic", calls |-> get]
        ELSE IF response.status = 404 THEN [res |-> "ok", calls |-> get]
        ELSE IF response.status # 200 THEN [res |-> "error", calls |-> get]
        ELSE IF cur.err THEN [res |-> "error", calls |-> get]
        ELSE IF versionConflict(planVersion, cur.version)
        THEN [res |-> "error", calls |-> get]
        ELSE [res |-> "ok", calls |-> get]

\* a faulty variant: the requested version is incremented
manualUpdateVersionNext(planVersion) == planVersion + 1

\* the version a manual-mode update writes
manualUpdateVersion(planVersion) == planVersion

\* a faulty variant: the tracked version is written again
autoUpdateVersionSame(stateVersion) == stateVersion

\* the version an auto-mode update writes
autoUpdateVersion(stateVersion) == stateVersion + 1

\* WorkflowDefResource.Update with the planned manifest over the prior state
UpdateOutcome(s, state, plan, fault) ==
    LET manifest == stripAuditable(plan)
        ver == getWorkflowVersionOptionalFromManifest(manifest)
        verify == IF ver.exists THEN verifyValidVersionForUpdate(s, ver.version, fault)
                  ELSE [res |-> "ok", calls |-> <<>>]
        newVersion == IF ver.exists THEN manualUpdateVersion(ver.version)
                      ELSE autoUpdateVersion(state.version)
        body == IF ver.exists THEN manifest ELSE Put(manifest, "version", N(newVersion))
        response == do(Len(verify.calls) + 1, fault, Response(FALSE, 200, EmptyMap))
        calls == Append(verify.calls, Call("PUT", newVersion, body, response))
    IN  IF ver.err THEN Outcome("error", <<>>, s, state)
        ELSE IF verify.res # "ok" THEN Outcome(verify.res, verify.calls, s, state)
        ELSE IF response.err THEN Outcome("error", calls, s, state)
        ELSE IF response.status = 404 THEN Outcome("removed", calls, s, NoState)
        ELSE IF response.status # 200 THEN Outcome("error", calls, s, state)
        ELSE Outcome("ok", calls, serverPut(s, body), Tracked(plan, newVersion))

(***************************************************************************)
(* Read.                                                                   *)
(***************************************************************************)
\* a faulty variant: the server-owned fields of the response are kept
pinAuditableNot(currentManifestMap, stateManifestMap) == currentManifestMap

\* the server-owned fields of the response are dropped and those of the
\* state put in their place
pinAuditable(currentManifestMap, stateManifestMap) ==
    [ k \in (DOMAIN currentManifestMap \ auditableFieldsToIgnore)
            \cup (DOMAIN stateManifestMap \cap auditableFieldsToIgnore) |->
        IF k \in auditableFieldsToIgnore THEN stateManifestMap[k]
        ELSE currentManifestMap[k] ]

\* a faulty variant: the pairing of the tasks stops at the first element
\* that is no mapping
workflowDefMergeStopsAtNonMap(currentManifestMap, stateManifestMap) ==
    LET m == mergeManifestMaps(currentManifestMap, stateManifestMap)
    IN  IF "tasks" \notin DOMAIN currentManifestMap THEN m
        ELSE IF currentManifestMap["tasks"].t # "arr" THEN m
        ELSE IF "tasks" \notin DOMAIN m THEN m
        ELSE IF m["tasks"].t # "arr" THEN m
        ELSE LET cur == currentManifestMap["tasks"].a
                 sta == m["tasks"].a
             IN  Put(m, "tasks",
                     A([i \in 1..Len(sta) |->
                          IF /\ i <= Len(cur)
                             /\ \A j \in 1..i : cur[j].t = "map" /\ sta[j].t = "map"
                          THEN M(mergeManifestMaps(cur[i].m, sta[i].m))
                          ELSE sta[i]]))

workflowDefMerge(currentManifestMap, stateManifestMap) ==
    LET m == mergeManifestMaps(currentManifestMap, stateManifestMap)
    IN  IF "tasks" \notin DOMAIN currentManifestMap THEN m
        ELSE IF currentManifestMap["tasks"].t # "arr" THEN m
        ELSE IF "tasks" \notin DOMAIN m THEN m
        ELSE IF m["tasks"].t # "arr" THEN m
        ELSE LET cur == currentManifestMap["tasks"].a
                 sta == m["tasks"].a
             IN  Put(m, "tasks",
                     A([i \in 1..Len(sta) |->
                          IF i <= Len(cur) /\ cur[i].t = "map" /\ sta[i].t = "map"
                          THEN M(mergeManifestMaps(cur[i].m, sta[i].m))
                          ELSE sta[i]]))

workflowDefCleanupAndMerge(currentManifestMap, stateManifestMap) ==
    workflowDefMerge(workflowDefCleanup(currentManifestMap), stateManifestMap)

\* a faulty variant: the tracked version is left as it was
readVersionKept(stateVersion, version) == stateVersion

\* state.Version after a read
readVersion(stateVersion, version) == version

\* a faulty variant: a 404 is an error like any other status
ReadOutcomeNotFoundFails(s, state, fault) ==
    LET stateVer == getWorkflowVersionOptionalFromManifest(state.manifest)
        response == do(1, fault, serverGet(s))
        calls == <<Call("GET", 0, EmptyMap, response)>>
        cur == getWorkflowVersionFromManifest(response.body)
        pinned == pinAuditable(response.body, state.manifest)
        current == IF stateVer.exists THEN pinned ELSE Remove(pinned, {"version"})
    IN  IF stateVer.err THEN Outcome("error", <<>>, s, state)
        ELSE IF response.err THEN Outcome("error", calls, s, state)
        ELSE IF response.status # 200 THEN Outcome("error", calls, s, state)
        ELSE IF cur.err THEN Outcome("error", calls, s, state)
        ELSE Outcome("ok", calls, s,
                     Tracked(workflowDefCleanupAndMerge(current, state.manifest),
                             readVersion(state.version, cur.version)))

\* WorkflowDefResource.Read
ReadOutcome(s, state, fault) ==
    LET stateVer == getWorkflowVersionOptionalFromManifest(state.manifest)
        response == do(1, fault, serverGet(s))
        calls == <<Call("GET", 0, EmptyMap, response)>>
        cur == getWorkflowVersionFromManifest(response.body)
        pinned == pinAuditable(response.body, state.manifest)
        current == IF stateVer.exists THEN pinned ELSE Remove(pinned, {"version"})
    IN  IF stateVer.err THEN Outcome("error", <<>>, s, state)
        ELSE IF response.err THEN Outcome("error", calls, s, state)
        ELSE IF response.status = 404 THEN Outcome("removed", calls, s, NoState)
        ELSE IF response.status # 200 THEN Outcome("error", calls, s, state)
        ELSE IF cur.err THEN Outcome("error", calls, s, state)
        ELSE Outcome("ok", calls, s,
                     Tracked(workflowDefCleanupAndMerge(current, state.manifest),
                             readVersion(state.version, cur.version)))

(***************************************************************************)
(* Delete.                                                                 *)
(***************************************************************************)
\* getLatestVersion as call number i
getLatestVersion(s, i, fault) ==
    LET response == do(i, fault, serverGet(s))
        cur == getWorkflowVersionFromManifest(response.body)
        R(err, exists, version) ==
            [err |-> err, exists |-> exists, version |-> version,
             call |-> Call("GET", 0, EmptyMap, response)]
    IN  IF response.err THEN R(TRUE, FALSE, 0)
        ELSE IF response.status = 404 THEN R(FALSE, FALSE, 0)
        ELSE IF response.status # 200 THEN R(TRUE, FALSE, 0)
        ELSE IF cur.err THEN R(TRUE, FALSE, 0)
        ELSE R(FALSE, TRUE, cur.version)

\* a faulty variant: no guard against deleting a version twice
sameVersionTwiceNever(currentVersion, nextVersion) == FALSE

\* a faulty variant: the guard against deleting a version twice also stops
\* the loop at the version below the one just deleted
sameVersionTwiceOrNext(currentVersion, nextVersion) ==
    currentVersion > 0 /\ currentVersion - 1 <= nextVersion

\* currentVersion > 0 && currentVersion == nextVersion
sameVersionTwice(currentVersion, nextVersion) ==
    currentVersion > 0 /\ currentVersion = nextVersion

\* the for loop of Delete from its iteration that starts with call number i
RECURSIVE deleteLoop(_, _, _, _, _)
deleteLoop(s, currentVersion, i, calls, fault) ==
    LET latest == getLatestVersion(s, i, fault)
        response == do(i + 1, fault, Response(FALSE, 200, EmptyMap))
        after == Append(Append(calls, latest.call),
                        Call("DELETE", latest.version, EmptyMap, response))
    IN  IF latest.err THEN Outcome("error", Append(calls, latest.call), s, NoState)
        ELSE IF ~latest.exists THEN Outcome("ok", Append(calls, latest.call), s, NoState)
        ELSE IF sameVersionTwice(currentVersion, latest.version)
        THEN Outcome("error", Append(calls, latest.call), s, NoState)
        ELSE IF response.err THEN Outcome("error", after, s, NoState)
        ELSE IF response.status # 200 THEN Outcome("error", after, s, NoState)
        ELSE deleteLoop(IF fault.at = i + 1 THEN s ELSE serverDelete(s, latest.version),
                        latest.version, i + 2, after, fault)

\* WorkflowDefResource.Delete: on success the resource leaves the state
DeleteOutcome(s, state, fault) ==
    LET o == deleteLoop(s, 0, 1, <<>>, fault)
    IN  Outcome(o.res, o.calls, o.srv, IF o.res = "ok" THEN NoState ELSE state)

(***************************************************************************)
(* The task resource.                                                      *)
(***************************************************************************)
\* what the server keeps of a written task definition
taskServerStored(body) ==
    [present |-> TRUE,
     manifest |-> mergeManifestMaps(
                      Remove(body, auditableFieldsToIgnore),
                      [retryCount |-> N(3), timeoutPolicy |-> S("TIME_OUT_WF"),
                       createTime |-> N(1)])]

\* GET metadata/taskdefs/{name}
taskServerGet(s) ==
    IF s.present THEN Response(FALSE, 200, s.manifest)
    ELSE Response(FALSE, 404, EmptyMap)

\* DELETE metadata/taskdefs/{name}: 500 when there is no such definition
taskServerDelete(s) ==
    IF s.present THEN Response(FALSE, 200, EmptyMap)
    ELSE Response(FALSE, 500, EmptyMap)

\* getTaskTypeFromManifest: TRUE when the name is missing, no string or empty
taskTypeInvalid(manifest) ==
    \/ "name" \notin DOMAIN manifest
    \/ manifest["name"].t # "str"
    \/ manifest["name"].s = ""

\* TaskDefResource.Create
TaskCreateOutcome(s, plan, fault) ==
    LET body == stripAuditable(plan)
        response == do(1, fault, Response(FALSE, 200, EmptyMap))
        calls == <<Call("POST", 0, body, response)>>
    IN  IF response.err THEN Outcome("error", calls, s, NoState)
        ELSE IF response.status # 200 THEN Outcome("error", calls, s, NoState)
        ELSE Outcome("ok", calls, taskServerStored(body), Tracked(plan, 0))

taskDefCleanupAndMerge(currentManifestMap, stateManifestMap) ==
    mergeManifestMaps(cleanupManifestDefaults(currentManifestMap, defaultTaskDefValues),
                      stateManifestMap)

\* TaskDefResource.Read
TaskReadOutcome(s, state, fault) ==
    LET response == do(1, fault, taskServerGet(s))
        calls == <<Call("GET", 0, EmptyMap, response)>>
        current == pinAuditable(response.body, state.manifest)
    IN  IF taskTypeInvalid(state.manifest) THEN Outcome("error", <<>>, s, state)
        ELSE IF response.err THEN Outcome("error", calls, s, state)
        ELSE IF response.status = 404 THEN Outcome("removed", calls, s, NoState)
        ELSE IF response.status # 200 THEN Outcome("error", calls, s, state)
        ELSE Outcome("ok", calls, s,
                     Tracked(taskDefCleanupAndMerge(current, state.manifest), 0))

\* TaskDefResource.Update
TaskUpdateOutcome(s, state, plan, fault) ==
    LET body == stripAuditable(plan)
        response == do(1, fault, Response(FALSE, 200, EmptyMap))
        calls == <<Call("PUT", 0, body, response)>>
    IN  IF response.err THEN Outcome("error", calls, s, state)
        ELSE IF response.status = 404 THEN Outcome("removed", calls, s, NoState)
        ELSE IF response.status # 200 THEN Outcome("error", calls, s, state)
        ELSE Outcome("ok", calls, taskServerStored(body), Tracked(plan, 0))

\* a faulty variant: any answer to the follow-up GET counts as gone
taskAlreadyDeletedOnAnswer(internalGetResponse) == ~internalGetResponse.err

\* err == nil && internalGetResponse.StatusCode == http.StatusNotFound
taskAlreadyDeleted(internalGetResponse) ==
    ~internalGetResponse.err /\ internalGetResponse.status = 404

\* TaskDefResource.Delete: a DELETE answered 500 is followed by one GET, and
\* a 404 to that GET means the definition was already gone
TaskDeleteOutcome(s, state, fault) ==
    LET response == do(1, fault, taskServerDelete(s))
        deleted == IF fault.at # 1 /\ s.present THEN NoTask ELSE s
        del == <<Call("DELETE", 0, EmptyMap, response)>>
        internalGetResponse == do(2, fault, taskServerGet(deleted))
        both == Append(del, Call("GET", 0, EmptyMap, internalGetResponse))
        alreadyDeleted == taskAlreadyDeleted(internalGetResponse)
    IN  IF taskTypeInvalid(state.manifest) THEN Outcome("error", <<>>, s, state)
        ELSE IF response.err THEN Outcome("error", del, s, state)
        ELSE IF response.status = 200 THEN Outcome("ok", del, deleted, NoState)
        ELSE IF response.status # 500 THEN Outcome("error", del, s, state)
        ELSE IF alreadyDeleted THEN Outcome("ok", both, deleted, NoState)
        ELSE Outcome("error", both, s, state)

(***************************************************************************)
(* Spec: inputs and actions.                                               *)
(***************************************************************************)
WfTask(m) == A(<<M(m)>>)

\* proposed manifests without the version: the first two are equal after
\* elision, the third is not; the second carries a server-owned field
Contents ==
    { [name |-> S("w1"), tasks |-> WfTask([name |-> S("t1"), type |-> S("SIMPLE")])],
      [name |-> S("w1"), schemaVersion |-> N(2), createTime |-> N(5),
       tasks |-> WfTask([name |-> S("t1")])],
      [name |-> S("w1"), description |-> S("d"),
       tasks |-> WfTask([name |-> S("t1"), type |-> S("SIMPLE")])] }

Plans(maxv) == Contents \cup {Put(c, "version", N(v)) : c \in Contents, v \in 1..maxv}

\* what the server can hold of one version
StoredContents(v) == {serverStored(Put(c, "version", N(v))) : c \in Contents}

\* the version mode of a proposed manifest; "malformed" when its version
\* field is no version
ModeOf(manifest) ==
    LET ver == getWorkflowVersionOptionalFromManifest(manifest)
    IN  IF ver.err THEN "malformed" ELSE IF ver.exists THEN "manual" ELSE "auto"

\* the fault, when the operation reached the call it was set for
Fired(fault, calls) == IF fault.at \in 1..Len(calls) THEN fault ELSE NoFault

\* the run of manual updates after one more
RunAfter(run, version) == IF run = <<>> THEN <<version>> ELSE <<run[Len(run)], version>>

Operation(op, plan, o, fault) ==
    [op |-> op, mode |-> ModeOf(plan), plan |-> plan, res |-> o.res,
     calls |-> o.calls, fault |-> Fired(fault, o.calls)]

\* no call carries a version beyond the bound
WithinBound(o, maxv) == \A i \in 1..Len(o.calls) : o.calls[i].v <= maxv

\* Create tells a refused PUT apart only as non-200
CreateFaults == {NoFault} \cup GetFaults(1) \cup (PutFaults(2) \ {[at |-> 2, kind |-> "status404"]})

UpdateFaults(plan) ==
    IF ModeOf(plan) = "manual" THEN {NoFault} \cup GetFaults(1) \cup PutFaults(2)
    ELSE {NoFault} \cup PutFaults(1)

ReadFaults == {NoFault} \cup GetFaults(1)

DeleteFaults(maxv) ==
    {NoFault}
    \cup UNION {GetFaults(2 * j - 1) \cup DelFaults(2 * j) : j \in 1..maxv}
    \cup GetFaults(2 * maxv + 1)

CreateOf(plans, maxv) ==
    /\ ~st.present
    /\ \E plan \in plans, fault \in CreateFaults :
         LET o == CreateOutcome(srv, plan, fault)
         IN  /\ WithinBound(o, maxv)
             /\ srv' = o.srv
             /\ st' = o.st
             /\ last' = Operation("create", plan, o, fault)
             /\ manualRun' = <<>>
    /\ UNCHANGED <<evars, pvars, mvars, tvars, cvars>>

Create(maxv) == CreateOf(Plans(maxv), maxv)

\* an update is planned only when ModifyPlan finds a difference
UpdateOf(plans, maxv) ==
    /\ st.present
    /\ \E plan \in plans :
         /\ ~modifyPlanEqual("workflow", plan, st.manifest)
         /\ \E fault \in UpdateFaults(plan) :
              LET o == UpdateOutcome(srv, st, plan, fault)
              IN  /\ WithinBound(o, maxv)
                  /\ srv' = o.srv
                  /\ st' = o.st
                  /\ last' = Operation("update", plan, o, fault)
                  /\ manualRun' = IF o.res = "removed" THEN <<>>
                                  ELSE IF o.res = "ok" /\ ModeOf(plan) = "manual"
                                  THEN RunAfter(manualRun, o.st.version)
                                  ELSE manualRun
    /\ UNCHANGED <<evars, pvars, mvars, tvars, cvars>>

Update(maxv) == UpdateOf(Plans(maxv), maxv)

Read ==
    /\ st.present
    /\ \E fault \in ReadFaults :
         LET o == ReadOutcome(srv, st, fault)
         IN  /\ srv' = o.srv
             /\ st' = o.st
             /\ last' = Operation("read", st.manifest, o, fault)
             /\ manualRun' = IF o.res = "removed" THEN <<>> ELSE manualRun
    /\ UNCHANGED <<evars, pvars, mvars, tvars, cvars>>

Delete(maxv) ==
    /\ st.present
    /\ \E fault \in DeleteFaults(maxv) :
         LET o == DeleteOutcome(srv, st, fault)
         IN  /\ srv' = o.srv
             /\ st' = o.st
             /\ last' = Operation("delete", st.manifest, o, fault)
             /\ manualRun' = <<>>
    /\ UNCHANGED <<evars, pvars, mvars, tvars, cvars>>

(***************************************************************************)
(* The task resource: inputs and actions.                                  *)
(***************************************************************************)
\* proposed task manifests: the second carries a default and a server-owned
\* field, the third elides to its name
TaskContents ==
    { [name |-> S("t1"), retryCount |-> N(4)],
      [name |-> S("t1"), retryCount |-> N(4), timeoutPolicy |-> S("TIME_OUT_WF"),
       createTime |-> N(5)],
      [name |-> S("t1"), retryCount |-> N(3)] }

\* a tracked manifest without a name
NamelessTask == [retryCount |-> N(4)]

TaskOperation(op, plan, o, fault) ==
    [op |-> op, mode |-> "task", plan |-> plan, res |-> o.res,
     calls |-> o.calls, fault |-> Fired(fault, o.calls)]

TaskCreateFaults == {NoFault} \cup GetFaults(1)

TaskDeleteFaults == {NoFault} \cup PutFaults(1) \cup GetFaults(2)

TaskCreate ==
    /\ tlast.op # "idle"
    /\ ~tst.present
    /\ \E plan \in TaskContents, fault \in TaskCreateFaults :
         LET o == TaskCreateOutcome(tsrv, plan, fault)
         IN  /\ tsrv' = o.srv
             /\ tst' = o.st
             /\ tlast' = TaskOperation("create", plan, o, fault)
    /\ UNCHANGED <<evars, pvars, lvars, mvars, cvars>>

\* an update is planned only when ModifyPlan finds a difference
TaskUpdate ==
    /\ tlast.op # "idle"
    /\ tst.present
    /\ \E plan \in TaskContents :
         /\ ~modifyPlanEqual("task", plan, tst.manifest)
         /\ \E fault \in {NoFault} \cup PutFaults(1) :
              LET o == TaskUpdateOutcome(tsrv, tst, plan, fault)
              IN  /\ tsrv' = o.srv
                  /\ tst' = o.st
                  /\ tlast' = TaskOperation("update", plan, o, fault)
    /\ UNCHANGED <<evars, pvars, lvars, mvars, cvars>>

TaskRead ==
    /\ tlast.op # "idle"
    /\ tst.present
    /\ \E fault \in ReadFaults :
         LET o == TaskReadOutcome(tsrv, tst, fault)
         IN  /\ tsrv' = o.srv
             /\ tst' = o.st
             /\ tlast' = TaskOperation("read", tst.manifest, o, fault)
    /\ UNCHANGED <<evars, pvars, lvars, mvars, cvars>>

TaskDelete ==
    /\ tlast.op # "idle"
    /\ tst.present
    /\ \E fault \in TaskDeleteFaults :
         LET o == TaskDeleteOutcome(tsrv, tst, fault)
         IN  /\ tsrv' = o.srv
             /\ tst' = o.st
             /\ tlast' = TaskOperation("delete", tst.manifest, o, fault)
    /\ UNCHANGED <<evars, pvars, lvars, mvars, cvars>>

(***************************************************************************)
(* SpecMerge: one merge of a map into another.                             *)
(***************************************************************************)
MergeKeys == {"name", "inputTemplate"}

MergeVals ==
    {Null, B(TRUE), S("t1"), M(EmptyMap), M([a |-> N(0)]), M([a |-> N(1)]),
     A(<<>>), A(<<N(1)>>), A(<<S("a"), S("b")>>)}
    \cup {N(n) : n \in 0..MaxNum}

MergeDocs == UNION {[D -> MergeVals] : D \in SUBSET MergeKeys}

MergeTaskElems ==
    {M([name |-> S("t1")]), M([name |-> S("t2"), type |-> S("HTTP")]),
     M([name |-> S("t1"), inputParameters |-> M([a |-> N(1)])]), S("x")}

MergeTasksVals ==
    {A(<<>>), S("x")}
    \cup {A(<<e>>) : e \in MergeTaskElems}
    \cup {A(<<e, f>>) : e \in MergeTaskElems, f \in MergeTaskElems}

MergeWfBases ==
    UNION {[D -> {S("w1"), M([a |-> N(0)]), M([a |-> N(MaxNum)])}] :
             D \in SUBSET MergeKeys}

MergeWfDocs == MergeWfBases \cup {Put(d, "tasks", tv) : d \in MergeWfBases, tv \in MergeTasksVals}

InitMerge ==
    /\ \/ mergeKind = "doc" /\ fromMap \in MergeDocs /\ intoMap \in MergeDocs
       \/ mergeKind = "wf" /\ fromMap \in MergeWfDocs /\ intoMap \in MergeWfDocs
    /\ toMap = intoMap
    /\ mergeDone = FALSE
    /\ ConcIdle
    /\ ElideIdle
    /\ PlanIdle
    /\ LifeIdle
    /\ TaskIdle

\* mergeManifestMaps(fromMap, toMap)
MergeDoc ==
    /\ mergeKind = "doc"
    /\ ~mergeDone
    /\ toMap' = mergeManifestMaps(fromMap, toMap)
    /\ mergeDone' = TRUE
    /\ UNCHANGED <<mergeKind, fromMap, intoMap, evars, pvars, lvars, tvars, cvars>>

\* workflowDefMerge(fromMap, toMap)
MergeWf ==
    /\ mergeKind = "wf"
    /\ ~mergeDone
    /\ toMap' = workflowDefMerge(fromMap, toMap)
    /\ mergeDone' = TRUE
    /\ UNCHANGED <<mergeKind, fromMap, intoMap, evars, pvars, lvars, tvars, cvars>>

NextMerge == MergeDoc \/ MergeWf

SpecMerge == InitMerge /\ [][NextMerge]_vars

(***************************************************************************)
(* SpecOps: one operation from every server content and tracked state.     *)
(* Other clients may have written or deleted any version, so the server    *)
(* holds any set of versions 1..MaxVersion and the tracked version is any  *)
(* version; a tracked manifest in manual mode carries the tracked version. *)
(***************************************************************************)
OpsServers ==
    { [v \in {w \in 1..MaxVersion : f[w] # EmptyMap} |->
         serverStored(Put(f[v], "version", N(v)))] :
      f \in [1..MaxVersion -> Contents \cup {EmptyMap}] }

\* proposed manifests whose version field is no version: smaller than 1, a
\* fraction, a string
MalformedPlans ==
    {[name |-> S("w1"), version |-> v,
      tasks |-> WfTask([name |-> S("t1"), type |-> S("SIMPLE")])]
         : v \in {N(0), Num(1, TRUE), S("1")}}

OpsStates ==
    {NoState}
    \cup {Tracked(c, v) : c \in Contents, v \in 1..MaxVersion}
    \cup {Tracked(Put(c, "version", N(v)), v) : c \in Contents, v \in 1..MaxVersion}
    \cup {Tracked(m, 1) : m \in MalformedPlans}

\* the task server holds nothing under the name or what was written of one
\* of the proposals
OpsTaskServers == {NoTask} \cup {taskServerStored(c) : c \in TaskContents}

OpsTaskStates ==
    {NoState} \cup {Tracked(c, 0) : c \in TaskContents \cup {NamelessTask}}

InitOps ==
    /\ \/ /\ srv \in OpsServers
          /\ st \in OpsStates
          /\ last = NoOperation
          /\ manualRun = <<>>
          /\ TaskIdle
       \/ /\ tsrv \in OpsTaskServers
          /\ tst \in OpsTaskStates
          /\ tlast = NoOperation
          /\ LifeIdle
    /\ ConcIdle
    /\ ElideIdle
    /\ PlanIdle
    /\ MergeIdle

OpsPlans == Plans(MaxVersion) \cup MalformedPlans

OpsCreate == last.op = "none" /\ tlast.op = "idle" /\ CreateOf(OpsPlans, MaxVersion)
OpsUpdate == last.op = "none" /\ tlast.op = "idle" /\ UpdateOf(OpsPlans, MaxVersion)
OpsRead == last.op = "none" /\ tlast.op = "idle" /\ Read
OpsDelete == last.op = "none" /\ tlast.op = "idle" /\ Delete(MaxVersion)
OpsTaskCreate == tlast.op = "none" /\ TaskCreate
OpsTaskUpdate == tlast.op = "none" /\ TaskUpdate
OpsTaskRead == tlast.op = "none" /\ TaskRead
OpsTaskDelete == tlast.op = "none" /\ TaskDelete

NextOps ==
    \/ OpsCreate \/ OpsUpdate \/ OpsRead \/ OpsDelete
    \/ OpsTaskCreate \/ OpsTaskUpdate \/ OpsTaskRead \/ OpsTaskDelete

SpecOps == InitOps /\ [][NextOps]_vars

(***************************************************************************)
(* Spec: the life cycle of the resource of one client, no other writer.    *)
(***************************************************************************)
\* the server as the first operation finds it: nothing under the name, or
\* versions 1..n written earlier
InitServers ==
    {EmptyMap} \cup
    { [v \in 1..n |-> serverStored(Put(c, "version", N(v)))] :
        c \in Contents, n \in 1..MaxLifeVersion }

Init ==
    /\ srv \in InitServers
    /\ st = NoState
    /\ last = NoOperation
    /\ manualRun = <<>>
    /\ ConcIdle
    /\ ElideIdle
    /\ PlanIdle
    /\ MergeIdle
    /\ TaskIdle

Next ==
    \/ Create(MaxLifeVersion)
    \/ Update(MaxLifeVersion)
    \/ Read
    \/ Delete(MaxLifeVersion)

Spec == Init /\ [][Next]_vars

(***************************************************************************)
(* SpecDelete: the loop of WorkflowDefResource.Delete call by call, beside  *)
(* other clients that write versions of the same name between its calls.   *)
(* loop.reads holds the versions the latest-version reads returned,        *)
(* loop.deletes the versions of the DELETE calls, loop.nreads counts the   *)
(* reads, loop.others the writes of the other clients, loop.start the      *)
(* versions on the server when the loop began and loop.unretired the       *)
(* DELETE calls answered 200 that retired nothing.                         *)
(***************************************************************************)
\* the manifest the other clients write
OtherContent == [name |-> S("w1"), tasks |-> WfTask([name |-> S("t1")])]

DeleteServers ==
    {[v \in vs |-> serverStored(Put(OtherContent, "version", N(v)))]
         : vs \in SUBSET (1..MaxLoopVersion)}

InitDelete ==
    /\ srv \in DeleteServers
    /\ loop = [NoDelete EXCEPT !.pc = "read", !.start = Cardinality(DOMAIN srv)]
    /\ st = Tracked(OtherContent, 1)
    /\ last = NoOperation
    /\ manualRun = <<>>
    /\ cc = <<>>
    /\ ElideIdle
    /\ PlanIdle
    /\ MergeIdle
    /\ TaskIdle

\* where the loop goes after a latest-version read
afterRead(latest, currentVersion) ==
    IF latest.err THEN "error"
    ELSE IF ~latest.exists THEN "done"
    ELSE IF sameVersionTwice(currentVersion, latest.version) THEN "error"
    ELSE "delete"

\* getLatestVersion and the tests that follow it in one iteration
LoopRead ==
    /\ loop.pc = "read"
    /\ \E fault \in {NoFault} \cup GetFaults(1) :
         LET latest == getLatestVersion(srv, 1, fault)
             pc == afterRead(latest, loop.currentVersion)
         IN  /\ loop' = [loop EXCEPT
                   !.pc = pc,
                   !.nreads = @ + 1,
                   !.reads = IF ~latest.err /\ latest.exists
                             THEN Append(@, latest.version) ELSE @,
                   !.currentVersion = IF pc = "delete" THEN latest.version ELSE @]
             /\ st' = IF pc = "done" THEN NoState ELSE st
    /\ UNCHANGED <<srv, last, manualRun, cc, evars, pvars, mvars, tvars>>

\* the DELETE of currentVersion
LoopDelete ==
    /\ loop.pc = "delete"
    /\ \E fault \in {NoFault} \cup DelFaults(1) :
         LET response == do(1, fault, Response(FALSE, 200, EmptyMap))
         IN  /\ loop' = [loop EXCEPT
                   !.pc = IF response.err \/ response.status # 200
                          THEN "error" ELSE "read",
                   !.deletes = Append(@, loop.currentVersion),
                   !.unretired = IF fault.kind = "noretire" THEN @ + 1 ELSE @]
             /\ srv' = IF fault = NoFault THEN serverDelete(srv, loop.currentVersion)
                       ELSE srv
    /\ UNCHANGED <<st, last, manualRun, cc, evars, pvars, mvars, tvars>>

\* another client writes a version of the name while the loop runs
OtherWrite ==
    /\ loop.pc \in {"read", "delete"}
    /\ loop.others < MaxOthers
    /\ \E v \in 1..MaxLoopVersion :
         srv' = serverPut(srv, Put(OtherContent, "version", N(v)))
    /\ loop' = [loop EXCEPT !.others = @ + 1]
    /\ UNCHANGED <<st, last, manualRun, cc, evars, pvars, mvars, tvars>>

NextDelete == LoopRead \/ LoopDelete \/ OtherWrite

\* the handler runs on: an enabled call of the loop is made
SpecDelete ==
    InitDelete /\ [][NextDelete]_vars /\ WF_vars(LoopRead) /\ WF_vars(LoopDelete)

(***************************************************************************)
(* SpecClients: two clients create or update the same name in manual or    *)
(* auto mode at the same time.  A handler decides on what its read         *)
(* returned (cc.cl[c].seen, the server at the time of the read) and its    *)
(* write reaches the server as it is by then.  cc.log lists the accepted   *)
(* writes in the order the server received them.                           *)
(***************************************************************************)
Clients == {1, 2}

ClientContents ==
    { [name |-> S("w1"), tasks |-> WfTask([name |-> S("t1"), type |-> S("SIMPLE")])],
      [name |-> S("w1"), description |-> S("d"),
       tasks |-> WfTask([name |-> S("t1"), type |-> S("SIMPLE")])] }

ClientPlans ==
    ClientContents
    \cup {Put(c, "version", N(v)) : c \in ClientContents, v \in 1..MaxLoopVersion}

ClientServers ==
    {EmptyMap}
    \cup {[v \in 1..n |-> serverStored(Put(OtherContent, "version", N(v)))]
              : n \in 1..MaxLoopVersion}

\* what a client that updates tracks
ClientTracked == Tracked(Put(OtherContent, "version", N(1)), 1)

\* a client about to create, or about to update in manual mode from the
\* state it tracks
ClientStarts ==
    {[op |-> "create", plan |-> p, st |-> NoState, pc |-> "start",
      seen |-> EmptyMap, res |-> "none", calls |-> <<>>] : p \in ClientPlans}
    \cup {[op |-> "update", plan |-> p, st |-> ClientTracked, pc |-> "start",
           seen |-> EmptyMap, res |-> "none", calls |-> <<>>]
              : p \in {q \in ClientPlans :
                          /\ ModeOf(q) = "manual"
                          /\ ~modifyPlanEqual("workflow", q, ClientTracked.manifest)}}

InitClients ==
    /\ srv \in ClientServers
    /\ \E a \in ClientStarts, b \in ClientStarts :
         cc = [cl |-> <<a, b>>, log |-> <<>>]
    /\ loop = NoDelete
    /\ st = NoState
    /\ last = NoOperation
    /\ manualRun = <<>>
    /\ ElideIdle
    /\ PlanIdle
    /\ MergeIdle
    /\ TaskIdle

\* the GET of the handler: checkExistingVersionBeforeCreate of a create,
\* verifyValidVersionForUpdate of a manual update
ClientRead(c) ==
    /\ cc.cl[c].pc = "start"
    /\ cc' = [cc EXCEPT !.cl[c].pc = "read", !.cl[c].seen = srv]
    /\ UNCHANGED <<srv, loop, st, last, manualRun, evars, pvars, mvars, tvars>>

\* what the handler does with what it read
ClientOutcome(cl, fault) ==
    IF cl.op = "create" THEN CreateOutcome(cl.seen, cl.plan, fault)
    ELSE UpdateOutcome(cl.seen, cl.st, cl.plan, fault)

\* the PUT calls of an operation that the server accepted
Accepted(calls) ==
    SelectSeq(calls, LAMBDA call : call.m = "PUT" /\ call.status = 200)

\* the rest of the handler: the tests on what was read, the PUT, the state
ClientFinish(c) ==
    /\ cc.cl[c].pc = "read"
    /\ \E fault \in {NoFault} \cup GetFaults(1) \cup {[at |-> 2, kind |-> "status500"]} :
         LET o == ClientOutcome(cc.cl[c], fault)
             puts == Accepted(o.calls)
         IN  /\ srv' = IF puts = <<>> THEN srv ELSE serverPut(srv, puts[1].body)
             /\ cc' = [cc EXCEPT
                   !.cl[c].pc = "done",
                   !.cl[c].res = o.res,
                   !.cl[c].calls = o.calls,
                   !.cl[c].st = o.st,
                   !.log = IF puts = <<>> THEN @
                           ELSE Append(@, [c |-> c, v |-> puts[1].v, body |-> puts[1].body])]
    /\ UNCHANGED <<loop, st, last, manualRun, evars, pvars, mvars, tvars>>

NextClients == \E c \in Clients : ClientRead(c) \/ ClientFinish(c)

SpecClients == InitClients /\ [][NextClients]_vars

(***************************************************************************)
(* SpecDrift: a manifest was written and is tracked as it was proposed;    *)
(* the server stores it with keys of its own added; Read runs and then     *)
(* ModifyPlan compares the proposed manifest with what Read left.          *)
(***************************************************************************)
\* m and the entries of extras under the keys ks, where m has no such key
WithExtras(m, extras, ks) ==
    [k \in DOMAIN m \cup ks |-> IF k \in DOMAIN m THEN m[k] ELSE extras[k]]

\* what the server may add to a task definition: server-owned fields, class
\* defaults, a null, an empty container
DriftTaskExtras ==
    [createTime |-> N(7), updatedBy |-> S("u"), retryCount |-> N(3),
     timeoutPolicy |-> S("TIME_OUT_WF"), ownerEmail |-> Null,
     inputTemplate |-> M(EmptyMap)]

\* the same for a workflow definition and for each element of its tasks
DriftWorkflowExtras ==
    [createTime |-> N(7), updatedBy |-> S("u"), restartable |-> B(TRUE),
     schemaVersion |-> N(2), description |-> Null, inputParameters |-> A(<<>>)]

DriftElementExtras ==
    [type |-> S("SIMPLE"), description |-> Null, inputParameters |-> M(EmptyMap)]

\* the tasks of m with the extras added to each element that is a mapping
WithElementExtras(m, ks) ==
    IF "tasks" \notin DOMAIN m THEN m
    ELSE IF m["tasks"].t # "arr" THEN m
    ELSE Put(m, "tasks",
             A([i \in 1..Len(m["tasks"].a) |->
                  IF m["tasks"].a[i].t = "map"
                  THEN M(WithExtras(m["tasks"].a[i].m, DriftElementExtras,
                                    ks \ DOMAIN m["tasks"].a[i].m))
                  ELSE m["tasks"].a[i]]))

InitDrift ==
    /\ \/ /\ planClass = "task"
          /\ planManifest \in PlanTaskManifests
          /\ \E ks \in SUBSET (DOMAIN DriftTaskExtras \ DOMAIN planManifest) :
               tsrv = [present |-> TRUE,
                       manifest |-> WithExtras(planManifest, DriftTaskExtras, ks)]
          /\ tst = Tracked(planManifest, 0)
          /\ tlast = NoOperation
          /\ LifeIdle
       \/ /\ planClass = "workflow"
          /\ planManifest \in PlanWorkflowManifests
          /\ \E ks \in SUBSET (DOMAIN DriftWorkflowExtras \ DOMAIN planManifest),
                es \in SUBSET DOMAIN DriftElementExtras :
               srv = [v \in {1} |->
                        Put(WithElementExtras(
                                WithExtras(planManifest, DriftWorkflowExtras, ks), es),
                            "version", N(1))]
          /\ st = Tracked(planManifest, 1)
          /\ last = NoOperation
          /\ manualRun = <<>>
          /\ TaskIdle
    /\ stateManifest = planManifest
    /\ planStateVersion = IF planClass = "task" THEN 0 ELSE 1
    /\ respPlan = [manifest |-> planManifest, version |-> -1]
    /\ planDone = FALSE
    /\ ConcIdle
    /\ ElideIdle
    /\ MergeIdle

DriftReadTask == planClass = "task" /\ tlast.op = "none" /\ TaskRead

DriftReadWorkflow == planClass = "workflow" /\ last.op = "none" /\ Read

\* ModifyPlan of the proposed manifest against the state that Read left
DriftModifyPlan ==
    /\ ~planDone
    /\ \/ planClass = "task" /\ tlast.op = "read" /\ tlast.res = "ok"
       \/ planClass = "workflow" /\ last.op = "read" /\ last.res = "ok"
    /\ LET state == IF planClass = "task" THEN tst ELSE st
       IN  /\ stateManifest' = state.manifest
           /\ planStateVersion' = state.version
           /\ respPlan' = IF modifyPlanEqual(planClass, planManifest, state.manifest)
                          THEN [manifest |-> state.manifest, version |-> state.version]
                          ELSE respPlan
    /\ planDone' = TRUE
    /\ UNCHANGED <<planClass, planManifest, evars, lvars, mvars, tvars, cvars>>

NextDrift == DriftReadTask \/ DriftReadWorkflow \/ DriftModifyPlan

SpecDrift == InitDrift /\ [][NextDrift]_vars

(***************************************************************************)
(* Properties of the elision engine (SpecElide).                           *)
(***************************************************************************)
\* the zero value of a primitive's own type
ZeroOf(v) == CASE v.t = "bool" -> B(FALSE)
               [] v.t = "num" -> N(0)
               [] v.t = "str" -> S("")
               [] OTHER -> Null

\* what the elision rule says of one value under one table
ElidedByRule(k, v, table) ==
    \/ v = Null
    \/ /\ v.t \in {"bool", "num", "str"}
       /\ v = (IF k \in DOMAIN table THEN table[k] ELSE ZeroOf(v))
    \/ v = M(EmptyMap)
    \/ v = A(<<>>)

\* C8: one document-level elision pass removes a top-level key if and only if
\* its value is null, a primitive equal to the table default of the key (or,
\* without a table entry, to the zero value of its type), an empty mapping or
\* an empty sequence; the other keys keep their values and no key is added;
\* the task tree of Scenario A elides to {"name":"t1"}.
C8_ElisionRule ==
    (passKind = "doc" /\ passes = 1) =>
        /\ DOMAIN manifestMap \subseteq DOMAIN origManifest
        /\ \A k \in DOMAIN origManifest :
              /\ (k \notin DOMAIN manifestMap)
                   <=> ElidedByRule(k, origManifest[k], defaultValues)
              /\ k \in DOMAIN manifestMap => manifestMap[k] = origManifest[k]
        /\ (origManifest = ScenarioATree /\ defaultValues = defaultTaskDefValues)
              => manifestMap = [name |-> S("t1")]

C8_Witness ==
    /\ passKind = "doc" /\ passes = 1
    /\ origManifest = ScenarioATree
    /\ defaultValues = defaultTaskDefValues
    /\ manifestMap = [name |-> S("t1")]

\* C10: a second elision pass changes nothing, for the document-level pass
\* under every table and for the workflow pass that also elides every
\* element of tasks.
C10_ElisionIdempotent ==
    passes = 2 => manifestMap = prevManifest

\* a workflow tree whose first pass elided a document key and a key of a task
C10_Witness ==
    /\ passKind = "wf" /\ passes = 2
    /\ "restartable" \in DOMAIN origManifest
    /\ "restartable" \notin DOMAIN manifestMap
    /\ "tasks" \in DOMAIN manifestMap
    /\ manifestMap["tasks"] = A(<<M([name |-> S("t1")]), M(EmptyMap)>>)
    /\ origManifest["tasks"] # manifestMap["tasks"]

(***************************************************************************)
(* Properties of the plan equality oracle (SpecPlan).                      *)
(***************************************************************************)
\* the plan that ModifyPlan leaves
C9_PlanOracleState ==
    planDone =>
        LET equal == planCleanup(planClass, planManifest)
                        = planCleanup(planClass, stateManifest)
        IN  /\ (respPlan = [manifest |-> stateManifest, version |-> planStateVersion])
                 <=> equal
            /\ ~equal => respPlan = [manifest |-> planManifest, version |-> -1]

\* C9: ModifyPlan replaces the plan by the current state if and only if the
\* elision of the proposed manifest equals the elision of the current
\* manifest (each with the pass of its class); otherwise the plan stays as
\* proposed; the stored manifests are never altered.
C9_PlanOracle ==
    /\ []C9_PlanOracleState
    /\ [][planManifest' = planManifest /\ stateManifest' = stateManifest]_vars

\* a workflow plan that differs from the state only by elided values is
\* replaced by the state
C9_Witness ==
    /\ planDone /\ planClass = "workflow"
    /\ planManifest # stateManifest
    /\ "restartable" \in DOMAIN planManifest
    /\ "tasks" \in DOMAIN stateManifest
    /\ respPlan = [manifest |-> stateManifest, version |-> planStateVersion]

(***************************************************************************)
(* Claims about one operation (SpecOps).  In a step, srv and st are the    *)
(* server and the tracked state before the operation and last' is what the *)
(* operation did.                                                          *)
(***************************************************************************)
\* the writes among the calls of an operation
Writes(calls) == SelectSeq(calls, LAMBDA c : c.m = "PUT")

\* the highest version on the server, 0 when it holds none
LatestOrZero(s) == IF DOMAIN s = {} THEN 0 ELSE serverLatest(s)

\* one write of the manifest, without the server-owned fields, under the version
OneWrite(calls, manifest, version) ==
    /\ Len(Writes(calls)) = 1
    /\ Writes(calls)[1].v = version
    /\ Writes(calls)[1].body
         = Put(Remove(manifest, auditableFieldsToIgnore), "version", N(version))

\* one write under the version, whatever the manifest
OneWriteOf(calls, version) ==
    /\ Len(Writes(calls)) = 1
    /\ Writes(calls)[1].v = version
    /\ Writes(calls)[1].body["version"] = N(version)

\* a create in automatic mode against the server it found
C1_AutoCreateStep ==
    (last'.op = "create" /\ last'.mode = "auto" /\ last'.fault.at # 1) =>
        LET plan == last'.plan
            calls == last'.calls
            v == LatestOrZero(srv)
            done == last'.fault.at = 0
        IN  /\ calls[1].m = "GET"
            /\ IF v = 0
               THEN /\ OneWriteOf(calls, 1)
                    /\ done => last'.res = "ok" /\ st' = Tracked(plan, 1)
               ELSE IF workflowDefCleanup(plan)
                       = workflowDefCleanup(Remove(srv[v], {"version"}))
               THEN /\ Writes(calls) = <<>>
                    /\ srv' = srv
                    /\ last'.res = "ok" /\ st' = Tracked(plan, v)
               ELSE /\ OneWriteOf(calls, v + 1)
                    /\ done => last'.res = "ok" /\ st' = Tracked(plan, v + 1)

C2_ManualUpdateStep ==
    (last'.op = "update" /\ last'.mode = "manual") =>
        LET plan == last'.plan
            calls == last'.calls
            p == plan["version"].n
            L == LatestOrZero(srv)
        IN  /\ calls[1].m = "GET"
            /\ last'.fault.at # 1 =>
                 IF p < L
                 THEN /\ last'.res = "error"
                      /\ Len(calls) = 1
                      /\ srv' = srv /\ st' = st
                 ELSE /\ Len(calls) = 2
                      /\ OneWrite(calls, plan, p)
                      /\ last'.fault.at = 0 =>
                           last'.res = "ok" /\ st' = Tracked(plan, p)

\* C2: an update in manual mode reads the latest version L before any
\* write; with the proposed version p below L it fails, writes nothing and
\* leaves server and tracked state alone; with p at or above L (or the name
\* absent) it issues exactly one write, after the read, with version p, and
\* the write accepted tracks p.
C2_ManualUpdate == [][C2_ManualUpdateStep]_vars

\* a manual update above the latest version, and written
C2_Witness ==
    /\ last.op = "update" /\ last.mode = "manual" /\ last.res = "ok"
    /\ Len(last.calls) = 2 /\ last.calls[1].status = 200
    /\ last.calls[2].m = "PUT" /\ last.calls[2].v = 3
    /\ st.version = 3 /\ 2 \in DOMAIN srv

\* a create in manual mode against the server it found
C3_ManualCreateStep ==
    (last'.op = "create" /\ last'.mode = "manual" /\ last'.fault.at # 1) =>
        LET plan == last'.plan
            calls == last'.calls
            p == plan["version"].n
            L == LatestOrZero(srv)
        IN  /\ calls[1].m = "GET"
            /\ L = 0 => /\ Len(Writes(calls)) = 1
                        /\ Writes(calls)[1].v = p
                        /\ Writes(calls)[1].body = Remove(plan, auditableFieldsToIgnore)
                        /\ last'.fault.at = 0 =>
                             last'.res = "ok" /\ st' = Tracked(plan, p)
            /\ p < L => /\ last'.res = "error"
                        /\ Writes(calls) = <<>>
                        /\ srv' = srv
                        /\ ~st'.present
            /\ last'.res = "ok" =>
                 /\ st'.present
                 /\ st'.version >= L
                 /\ st'.version >= LatestOrZero(srv')

\* C3: a create in manual mode with version p whose read is answered
\* writes the manifest as it is under p when the name is absent; with
\* the latest version L above p it fails with a conflict, writes nothing and
\* tracks nothing; no manual create succeeds tracking a version below the
\* server's latest.
C3_ManualCreate == [][C3_ManualCreateStep]_vars

\* a manual create of version 1 refused with the server at version 2
C3_Witness ==
    /\ last.op = "create" /\ last.mode = "manual" /\ last.res = "error"
    /\ last.fault.at = 0
    /\ last.plan["version"] = N(1)
    /\ Len(last.calls) = 1 /\ last.calls[1].status = 200
    /\ DOMAIN srv = {1, 2} /\ ~st.present

\* an update in automatic mode against the state it started from
C4_AutoUpdateStep ==
    (last'.op = "update" /\ last'.mode = "auto") =>
        LET plan == last'.plan
            calls == last'.calls
        IN  /\ Len(calls) = 1
            /\ calls[1].m = "PUT"
            /\ OneWrite(calls, plan, st.version + 1)
            /\ last'.fault.at = 0 =>
                 /\ last'.res = "ok"
                 /\ st' = Tracked(plan, st.version + 1)
                 /\ st.version + 1 \in DOMAIN srv'

\* C4: an update in automatic mode issues exactly one write, with the
\* tracked version plus one, reads nothing from the server, and the write
\* accepted tracks the tracked version plus one, whatever the server holds.
C4_AutoUpdate == [][C4_AutoUpdateStep]_vars

\* an automatic update from tracked version 1 wrote version 2 although the
\* server already held version 3
C4_Witness ==
    /\ last.op = "update" /\ last.mode = "auto" /\ last.res = "ok"
    /\ Len(last.calls) = 1 /\ last.calls[1].m = "PUT" /\ last.calls[1].v = 2
    /\ st.version = 2 /\ DOMAIN srv = {2, 3}

\* the calls of a delete that retires the versions n down to 1 of server s
RECURSIVE RetireCalls(_, _)
RetireCalls(s, n) ==
    IF n = 0
    THEN <<[m |-> "GET", v |-> 0, body |-> EmptyMap, status |-> 404, got |-> EmptyMap]>>
    ELSE <<[m |-> "GET", v |-> 0, body |-> EmptyMap, status |-> 200, got |-> s[n]],
           [m |-> "DELETE", v |-> n, body |-> EmptyMap, status |-> 200, got |-> EmptyMap]>>
         \o RetireCalls(s, n - 1)

\* a delete without a fault against the versions 1..n
C7_DeleteStep ==
    (/\ last'.op = "delete" /\ last'.fault.at = 0
     /\ \E n \in 0..MaxVersion : DOMAIN srv = 1..n) =>
        /\ last'.calls = RetireCalls(srv, Cardinality(DOMAIN srv))
        /\ last'.res = "ok"
        /\ srv' = EmptyMap
        /\ ~st'.present

\* C7: with the versions 1..n on the server and every call answered, a
\* delete issues n delete calls for the versions n, n-1, .., 1, each after a
\* read of the latest version, ends on a read answered 404, succeeds and
\* leaves no version on the server and no tracked state.
C7_Delete == [][C7_DeleteStep]_vars

\* a delete that retired the versions 3, 2 and 1
C7_Witness ==
    /\ last.op = "delete" /\ last.res = "ok" /\ last.fault.at = 0
    /\ Len(last.calls) = 7
    /\ last.calls[2].v = 3 /\ last.calls[4].v = 2 /\ last.calls[6].v = 1
    /\ srv = EmptyMap /\ ~st.present

(***************************************************************************)
(* Claims about the life of one resource with a single client (Spec).      *)
(***************************************************************************)
\* C5: with a single client and no other writer, after every successful
\* create, update or read the tracked version is the highest version on the
\* server, and in manual mode it is the version field of the tracked
\* manifest; after a successful delete nothing is tracked and the server
\* holds no version.
C5_VersionState ==
    /\ (last.op \in {"create", "update", "read"} /\ last.res = "ok") =>
         /\ st.present
         /\ DOMAIN srv # {}
         /\ st.version = serverLatest(srv)
         /\ ModeOf(st.manifest) = "manual" => st.manifest["version"] = N(st.version)
    /\ (last.op = "delete" /\ last.res = "ok") =>
         ~st.present /\ srv = EmptyMap

\* a manual update that wrote version 2 over version 1
C5_Witness ==
    /\ last.op = "update" /\ last.res = "ok"
    /\ st.present /\ st.version = 2 /\ DOMAIN srv = {1, 2}
    /\ ModeOf(st.manifest) = "manual" /\ st.manifest["version"] = N(2)

\* the last two manual updates of a run
C6_ManualRun == Len(manualRun) = 2 => manualRun[1] <= manualRun[2]

\* an automatic update against the state it started from
C6_AutoUpdateStep ==
    (last'.op = "update" /\ last'.mode = "auto" /\ last'.res = "ok") =>
        st'.version = st.version + 1

C11_NoOpStability ==
    (planDone /\ stateManifest = planCleanup(planClass, planManifest)) =>
        respPlan = [manifest |-> stateManifest, version |-> planStateVersion]

\* a workflow manifest judged against its elided copy, which differs from it
\* at the document level and inside a task
C11_Witness ==
    /\ planDone /\ planClass = "workflow"
    /\ stateManifest = planCleanup(planClass, planManifest)
    /\ "restartable" \in DOMAIN planManifest
    /\ "restartable" \notin DOMAIN stateManifest
    /\ "tasks" \in DOMAIN stateManifest
    /\ planManifest["tasks"] # stateManifest["tasks"]
    /\ respPlan = [manifest |-> stateManifest, version |-> planStateVersion]

(***************************************************************************)
(* Properties of the merge (SpecMerge).                                    *)
(***************************************************************************)
\* C12: merge fills primitives: after a merge every key of the source whose
\* value is a boolean, number or string holds the source's value in the
\* target, whatever the target held before, and every key of the source that
\* the target lacked is in the target with the source's value.
C12_MergeFillsPrimitives ==
    mergeDone =>
        \A k \in DOMAIN fromMap :
            (fromMap[k].t \in {"bool", "num", "str"} \/ k \notin DOMAIN intoMap)
                => k \in DOMAIN toMap /\ toMap[k] = fromMap[k]

\* a primitive of the source written over a mapping of the target, and a key
\* the target lacked copied
C12_Witness ==
    /\ mergeDone /\ mergeKind = "doc"
    /\ "name" \in DOMAIN fromMap /\ fromMap["name"] = S("t1")
    /\ "name" \in DOMAIN intoMap /\ intoMap["name"] = M([a |-> N(1)])
    /\ toMap["name"] = S("t1")
    /\ "inputTemplate" \in DOMAIN fromMap /\ "inputTemplate" \notin DOMAIN intoMap
    /\ toMap["inputTemplate"] = fromMap["inputTemplate"]

\* a non-empty mapping or a non-empty sequence
NonEmptyComposite(v) ==
    \/ v.t = "map" /\ DOMAIN v.m # {}
    \/ v.t = "arr" /\ Len(v.a) > 0

\* the key is an override of the target that the source does not fill
IsOverride(from, into, k) ==
    /\ k \in DOMAIN into
    /\ NonEmptyComposite(into[k])
    /\ k \notin DOMAIN from \/ from[k].t \notin {"bool", "num", "str"}

\* the overrides of the target keep their values
OverridesKept(from, into, to, keys) ==
    \A k \in keys : IsOverride(from, into, k) => k \in DOMAIN to /\ to[k] = into[k]

\* C13 as the specification states it: every override of the target is
\* unchanged after the merge, at the document level and in the workflow
\* merge, tasks included.
C13_MergePreservesOverrides ==
    mergeDone => OverridesKept(fromMap, intoMap, toMap, DOMAIN intoMap)

\* the tasks of the target after the workflow merge: the same number of
\* elements in the same order; an element paired with a mapping of the source
\* at its index is a mapping whose own overrides are kept, every other
\* element is unchanged
TasksKept(from, into, to) ==
    LET old == into["tasks"]
        new == to["tasks"]
        Paired(i) == /\ "tasks" \in DOMAIN from
                     /\ from["tasks"].t = "arr"
                     /\ i <= Len(from["tasks"].a)
                     /\ from["tasks"].a[i].t = "map"
                     /\ old.a[i].t = "map"
    IN  IF old.t # "arr" THEN new = old
        ELSE /\ new.t = "arr"
             /\ Len(new.a) = Len(old.a)
             /\ \A i \in 1..Len(old.a) :
                  IF Paired(i)
                  THEN /\ new.a[i].t = "map"
                       /\ OverridesKept(from["tasks"].a[i].m, old.a[i].m, new.a[i].m,
                                        DOMAIN old.a[i].m)
                  ELSE new.a[i] = old.a[i]

\* C13, amended: every override of the target is unchanged after the
\* document-level merge, and after the workflow merge for every key other
\* than tasks; an override under tasks keeps its length and order, its
\* elements not paired with a mapping of the source, and the overrides inside
\* each paired task.
C13_MergePreservesOverridesButTasks ==
    mergeDone =>
        /\ OverridesKept(fromMap, intoMap, toMap,
                         DOMAIN intoMap \ (IF mergeKind = "wf" THEN {"tasks"} ELSE {}))
        /\ (mergeKind = "wf" /\ IsOverride(fromMap, intoMap, "tasks"))
              => "tasks" \in DOMAIN toMap /\ TasksKept(fromMap, intoMap, toMap)

\* a workflow merge that kept a document override and the override inside a
\* task while it filled the primitives of that task
C13_Witness ==
    /\ mergeDone /\ mergeKind = "wf"
    /\ "inputTemplate" \in DOMAIN fromMap /\ fromMap["inputTemplate"] = M([a |-> N(0)])
    /\ "inputTemplate" \in DOMAIN intoMap /\ intoMap["inputTemplate"] = M([a |-> N(1)])
    /\ toMap["inputTemplate"] = M([a |-> N(1)])
    /\ "tasks" \in DOMAIN fromMap /\ "tasks" \in DOMAIN intoMap
    /\ fromMap["tasks"] = A(<<M([name |-> S("t2"), type |-> S("HTTP")])>>)
    /\ intoMap["tasks"] = A(<<M([name |-> S("t1"), inputParameters |-> M([a |-> N(1)])])>>)
    /\ toMap["tasks"] = A(<<M([name |-> S("t2"), type |-> S("HTTP"),
                               inputParameters |-> M([a |-> N(1)])])>>)

(***************************************************************************)
(* More claims about one operation (SpecOps).                              *)
(***************************************************************************)
\* a create in manual mode that found the name on the server with a manifest
\* equal, after elision, to the proposed one (version included)
C14_ManualCreateDriftStep ==
    (/\ last'.op = "create" /\ last'.mode = "manual" /\ last'.fault.at # 1
     /\ DOMAIN srv # {}
     /\ workflowDefCleanup(last'.plan) = workflowDefCleanup(srv[serverLatest(srv)])) =>
        Writes(last'.calls) = <<>> /\ last'.res = "ok"

\* C14 as the specification states it: a create in manual mode that finds
\* the name on the server with a manifest equal, after elision, to the
\* proposed one is a no-op and issues no write.
C14_ManualCreateDriftNoOp == [][C14_ManualCreateDriftStep]_vars

\* a create in manual mode that found the name on the server with a latest
\* version not above the requested one
C14_ManualCreateWritesStep ==
    (/\ last'.op = "create" /\ last'.mode = "manual" /\ last'.fault.at # 1
     /\ DOMAIN srv # {}
     /\ last'.plan["version"].n >= serverLatest(srv)) =>
        /\ Len(last'.calls) = 2
        /\ last'.calls[1].m = "GET"
        /\ OneWrite(last'.calls, last'.plan, last'.plan["version"].n)

\* C14, amended: a create in manual mode applies no drift check: when the
\* name resolves on the server and the requested version is not below the
\* latest, it issues exactly one write of the proposed manifest under the
\* requested version, also when the proposed manifest equals the server's
\* after elision.
C14_ManualCreateWrites == [][C14_ManualCreateWritesStep]_vars

\* a manual create of version 2 that read from the server a version 2 equal
\* after elision to the proposal, and wrote it all the same
C14_Witness ==
    /\ last.op = "create" /\ last.mode = "manual" /\ last.res = "ok"
    /\ Len(last.calls) = 2
    /\ last.calls[1].status = 200
    /\ last.plan["version"] = N(2)
    /\ workflowDefCleanup(last.plan) = workflowDefCleanup(last.calls[1].got)
    /\ last.calls[2].m = "PUT" /\ last.calls[2].v = 2
    /\ st.present /\ st.version = 2

(***************************************************************************)
(* The server-owned fields in the plan equality oracle (SpecPlan).         *)
(***************************************************************************)
\* the two manifests of the call differ at most in the server-owned fields,
\* and ModifyPlan has replaced the plan by the state
AuditOnlyDifferenceIsNoOp(class) ==
    (/\ planDone /\ planClass = class
     /\ Remove(planManifest, auditableFieldsToIgnore)
            = Remove(stateManifest, auditableFieldsToIgnore)) =>
        respPlan = [manifest |-> stateManifest, version |-> planStateVersion]

\* C15: server-owned fields are never compared: for task definitions and for
\* workflow definitions, two manifests that differ only in the values or
\* presence of createTime, updateTime, createdBy, updatedBy are judged a
\* no-op by ModifyPlan.
C15_AuditNeverCompared ==
    AuditOnlyDifferenceIsNoOp("task") /\ AuditOnlyDifferenceIsNoOp("workflow")

\* the bodies of the writes (PUT, POST) among the calls of an operation
WriteBodies(calls) ==
    {calls[i].body : i \in {j \in 1..Len(calls) : calls[j].m \in {"PUT", "POST"}}}

\* C16: no create or update of a task or a workflow sends a write body that
\* holds createTime, updateTime, createdBy or updatedBy, also when the
\* proposed manifest holds one of them.
C16_AuditNeverSent ==
    \A body \in WriteBodies(last.calls) \cup WriteBodies(tlast.calls) :
        DOMAIN body \cap auditableFieldsToIgnore = {}

\* a workflow write went out for a proposed manifest that holds createTime
C16_Witness ==
    /\ last.op \in {"create", "update"}
    /\ "createTime" \in DOMAIN last.plan
    /\ WriteBodies(last.calls) # {}
    /\ last.res = "ok"

\* a task write went out for a proposed manifest that holds createTime
C16_TaskWritten ==
    /\ tlast.op \in {"create", "update"}
    /\ "createTime" \in DOMAIN tlast.plan
    /\ WriteBodies(tlast.calls) # {}
    /\ tlast.res = "ok"

\* the server-owned fields of the tracked manifest before are those after
AuditKept(before, after) ==
    \A f \in auditableFieldsToIgnore :
        /\ f \in DOMAIN after <=> f \in DOMAIN before
        /\ f \in DOMAIN before => after[f] = before[f]

C17_ReadPinsStep ==
    /\ (last'.op = "read" /\ last'.res = "ok") => AuditKept(st.manifest, st'.manifest)
    /\ (tlast'.op = "read" /\ tlast'.res = "ok") => AuditKept(tst.manifest, tst'.manifest)

\* C17: a successful Read of a task or a workflow leaves the value of
\* createTime, updateTime, createdBy and updatedBy of the last-known manifest
\* as it was and adds none of these keys, whatever the response holds.
C17_ReadPins == [][C17_ReadPinsStep]_vars

\* a successful task Read whose response holds another createTime than the
\* tracked manifest
C17_Witness ==
    /\ tlast.op = "read"
    /\ tlast.res = "ok"
    /\ "createTime" \in DOMAIN tst.manifest
    /\ "createTime" \in DOMAIN tlast.calls[1].got
    /\ tlast.calls[1].got["createTime"] # tst.manifest["createTime"]

\* a successful workflow Read whose response holds a createTime and whose
\* tracked manifest holds none
C17_WorkflowIntroducesNone ==
    /\ last.op = "read"
    /\ last.res = "ok"
    /\ "createTime" \notin DOMAIN st.manifest
    /\ "createTime" \in DOMAIN last.calls[1].got

\* the workflow operation op, run against the server s, met a fatal
\* condition: a malformed version field, a manual version below the latest
\* one, a call that failed in transport or was answered 500, or a delete
\* answered 200 that retired nothing
WorkflowFatal(op, s) ==
    \/ op.op \in {"create", "update"} /\ op.mode = "malformed"
    \/ /\ op.op \in {"create", "update"} /\ op.mode = "manual"
       /\ op.fault.at # 1
       /\ op.plan["version"].n < LatestOrZero(s)
    \/ op.fault.kind \in {"transport", "status500", "noretire"}

\* the same for a task operation; a delete answered 500 whose follow-up read
\* is answered 404 is the handled case
TaskFatal(op, state) ==
    \/ op.op \in {"read", "delete"} /\ taskTypeInvalid(state.manifest)
    \/ /\ op.fault.kind \in {"transport", "status500"}
       /\ ~(op.op = "delete" /\ Len(op.calls) = 2 /\ op.calls[2].status = 404)
    \/ op.op \in {"create", "delete"} /\ op.fault.kind = "status404"

C18_FatalStep ==
    /\ (last'.op # "none" /\ last' # last /\ WorkflowFatal(last', srv)) =>
           last'.res = "error" /\ st' = st
    /\ (tlast'.op \notin {"none", "idle"} /\ tlast' # tlast /\ TaskFatal(tlast', tst)) =>
           tlast'.res = "error" /\ tst' = tst

\* C18: every create, read, update or delete of a workflow or a task that
\* meets a malformed manifest, a version conflict, a transport failure or a
\* status other than 200 and the handled 404 ends with a reported error and
\* with the tracked manifest and version as they were before.
C18_FatalLeavesState == [][C18_FatalStep]_vars

\* the same but for the one operation that ends in a crash, the manual
\* update whose latest-version read fails in transport: every other fatal
\* condition ends in a reported error, and all of them leave the tracked
\* state as it was
C18_FatalButCrashStep ==
    /\ (last'.op # "none" /\ last' # last /\ WorkflowFatal(last', srv)) =>
           /\ st' = st
           /\ last'.res = "error" \/
                (last'.res = "panic" /\ last'.op = "update" /\ last'.mode = "manual"
                 /\ last'.fault = [at |-> 1, kind |-> "transport"])
    /\ (tlast'.op \notin {"none", "idle"} /\ tlast' # tlast /\ TaskFatal(tlast', tst)) =>
           tlast'.res = "error" /\ tst' = tst

C18_FatalButCrash == [][C18_FatalButCrashStep]_vars

\* a task update refused with 500 and a tracked manifest left as it was
C18_TaskRefused ==
    /\ tlast.op = "update" /\ tlast.res = "error"
    /\ tlast.fault.kind = "status500"
    /\ tst.present /\ tst.manifest # tlast.plan

\* the operation op failed in transport at its last call and reported it
EndsAtFailure(op) == op.res = "error" /\ op.fault.at = Len(op.calls)

C19_TransportStep ==
    /\ (last' # last /\ last'.fault.kind = "transport") =>
           EndsAtFailure(last') /\ st' = st
    /\ (tlast' # tlast /\ tlast'.fault.kind = "transport") =>
           EndsAtFailure(tlast') /\ tst' = tst

\* C19: an operation of which a remote call fails in transport ends in a
\* reported error, without a crash, with the failed call as its last call and
\* with nothing written to the tracked state; the latest-version read of a
\* manual update is one of these calls.
C19_TransportFailureIsFatal == [][C19_TransportStep]_vars

\* the same held for every call but the latest-version read of a manual
\* update, where the operation ends in a crash
C19_ButValidationReadStep ==
    /\ (last' # last /\ last'.fault.kind = "transport") =>
           /\ st' = st
           /\ last'.fault.at = Len(last'.calls)
           /\ IF last'.op = "update" /\ last'.mode = "manual" /\ last'.fault.at = 1
              THEN last'.res = "panic"
              ELSE last'.res = "error"
    /\ (tlast' # tlast /\ tlast'.fault.kind = "transport") =>
           EndsAtFailure(tlast') /\ tst' = tst

C19_ButValidationRead == [][C19_ButValidationReadStep]_vars

\* a manual update whose latest-version read failed in transport
C19_ValidationReadFailed ==
    /\ last.op = "update" /\ last.mode = "manual"
    /\ last.fault = [at |-> 1, kind |-> "transport"]
    /\ last.res = "panic"

\* call i of the delete is a read answered with the version that the call
\* before it deleted
ReadsDeletedVersion(calls, i) ==
    /\ calls[i].m = "GET" /\ calls[i].status = 200
    /\ calls[i - 1].m = "DELETE" /\ calls[i - 1].status = 200
    /\ calls[i].got["version"] = N(calls[i - 1].v)

\* C20: when a read of the workflow delete loop returns the version that the
\* delete before it was answered 200 for, the delete ends there with an
\* error: that read is its last call, so no second delete of the version is
\* issued.
C20_SameVersionStops ==
    last.op = "delete" =>
        \A i \in 2..Len(last.calls) :
            ReadsDeletedVersion(last.calls, i) =>
                /\ last.res = "error"
                /\ Len(last.calls) = i
                /\ Cardinality({j \in 1..i : /\ last.calls[j].m = "DELETE"
                                             /\ last.calls[j].v = last.calls[i - 1].v}) = 1

\* a delete whose second delete call, of version 2, was answered 200 without
\* retiring the version, stopped at the read that followed
C20_Witness ==
    /\ last.op = "delete" /\ last.res = "error"
    /\ last.fault = [at |-> 4, kind |-> "noretire"]
    /\ Len(last.calls) = 5
    /\ ReadsDeletedVersion(last.calls, 5)
    /\ last.calls[4].v = 2
    /\ 2 \in DOMAIN srv /\ 3 \notin DOMAIN srv /\ st.present

(***************************************************************************)
(* Claims about the delete loop beside other clients (SpecDelete).         *)
(***************************************************************************)
StrictlyDecreasing(seq) == \A i \in 1..(Len(seq) - 1) : seq[i + 1] < seq[i]

\* the loop has stopped: success on a 404 or a fatal error
LoopStopped == loop.pc \in {"done", "error"}

\* every iteration made one read and at most one delete
OneReadPerIteration ==
    /\ Len(loop.deletes) <= loop.nreads
    /\ loop.nreads <= Len(loop.deletes) + 1

LoopBound ==
    /\ \A i \in 1..(Len(loop.deletes) - 1) : loop.deletes[i + 1] # loop.deletes[i]
    /\ loop.nreads <= loop.start + loop.others + loop.unretired + 1

WroteAs(c) == {e \in {cc.log[i] : i \in 1..Len(cc.log)} : e.c = c}

\* the last accepted write of version v
LastWriteOf(v) ==
    cc.log[CHOOSE i \in 1..Len(cc.log) :
               /\ cc.log[i].v = v
               /\ \A j \in (i + 1)..Len(cc.log) : cc.log[j].v # v]

\* client c, done: its version validation looked at what it read only, and
\* its write went out under the version chosen from what it read
ValidatedOnRead(c) ==
    LET cl == cc.cl[c]
        L == LatestOrZero(cl.seen)
        answered == cl.calls # <<>> /\ cl.calls[1].status \in {200, 404}
        refused == Len(cl.calls) = 2 /\ cl.calls[2].status # 200
    IN  (cl.pc = "done" /\ answered /\ ~refused) =>
            IF ModeOf(cl.plan) = "manual"
            THEN IF cl.plan["version"].n < L
                 THEN cl.res = "error" /\ WroteAs(c) = {}
                 ELSE /\ cl.res = "ok"
                      /\ cl.st = Tracked(cl.plan, cl.plan["version"].n)
                      /\ \E e \in WroteAs(c) : e.v = cl.plan["version"].n
            ELSE /\ cl.res = "ok"
                 /\ cl.st.manifest = cl.plan
                 /\ \A e \in WroteAs(c) : e.v = L + 1 /\ cl.st.version = L + 1

\* C22: nothing serializes two clients of one name: each one's validation
\* passes or fails on the latest version it read itself, whatever the other
\* client wrote since, its write goes out under the version chosen then, and
\* the server keeps, for every version, the body of the write it received
\* last.
C22_NotSerialized ==
    /\ \A c \in Clients : ValidatedOnRead(c)
    /\ \A e \in {cc.log[i] : i \in 1..Len(cc.log)} :
         /\ e.v \in DOMAIN srv
         /\ srv[e.v] = serverStored(LastWriteOf(e.v).body)

\* both clients read the same latest version, passed the validation and wrote
\* the same version in manual mode; the write of client 2 replaced that of
\* client 1, whose tracked manifest is no longer what the server stores under
\* its tracked version
C22_Witness ==
    /\ cc.cl[1].pc = "done" /\ cc.cl[2].pc = "done"
    /\ cc.cl[1].res = "ok" /\ cc.cl[2].res = "ok"
    /\ cc.cl[1].seen = cc.cl[2].seen
    /\ cc.cl[1].op = "update" /\ cc.cl[2].op = "create"
    /\ Len(cc.log) = 2
    /\ cc.log[1].c = 1 /\ cc.log[2].c = 2
    /\ cc.log[1].v = cc.log[2].v
    /\ cc.cl[1].st.version = cc.log[1].v
    /\ srv[cc.cl[1].st.version] # serverStored(cc.cl[1].st.manifest)

(***************************************************************************)
(* Claims about the answers 500 and 404 (SpecOps).                         *)
(***************************************************************************)
C23_TaskDeleteStep ==
    (tlast'.op = "delete" /\ tlast'.calls # <<>>) =>
        LET calls == tlast'.calls
        IN  /\ calls[1].m = "DELETE"
            /\ IF calls[1].status = 500
               THEN /\ Len(calls) = 2
                    /\ calls[2].m = "GET"
                    /\ IF calls[2].status = 404
                       THEN tlast'.res = "ok" /\ ~tst'.present
                       ELSE tlast'.res = "error" /\ tst' = tst
               ELSE /\ Len(calls) = 1
                    /\ IF calls[1].status = 200
                       THEN tlast'.res = "ok" /\ ~tst'.present
                       ELSE tlast'.res = "error" /\ tst' = tst

\* C23: a task delete whose DELETE is answered 500 issues exactly one GET of
\* the definition; the GET answered 404 makes the delete a success, any other
\* answer or a failure of the GET makes it fail; a DELETE answered with
\* another status than 200 and 500, or not answered, fails without a GET.
C23_TaskDelete500 == [][C23_TaskDeleteStep]_vars

\* a task delete answered 500 and then 404, which succeeded
C23_Witness ==
    /\ tlast.op = "delete" /\ tlast.res = "ok"
    /\ Len(tlast.calls) = 2
    /\ tlast.calls[1].status = 500 /\ tlast.calls[2].status = 404
    /\ ~tst.present

\* a task delete answered 500 and then 200, which failed
C23_StillThere ==
    /\ tlast.op = "delete" /\ tlast.res = "error"
    /\ Len(tlast.calls) = 2
    /\ tlast.calls[1].status = 500 /\ tlast.calls[2].status = 200
    /\ tst.present

\* C24: a workflow delete whose DELETE of a version is answered 500 issues a
\* follow-up GET next, and does not fail when that GET is answered 404.
C24_WorkflowDelete500 ==
    last.op = "delete" =>
        \A i \in 1..Len(last.calls) :
            (last.calls[i].m = "DELETE" /\ last.calls[i].status = 500) =>
                /\ Len(last.calls) > i
                /\ last.calls[i + 1].m = "GET"
                /\ last.calls[i + 1].status = 404 => last.res # "error"

\* what the handler does instead: the DELETE answered 500 is its last call and
\* the delete fails
C24_FailsAt500 ==
    last.op = "delete" =>
        \A i \in 1..Len(last.calls) :
            (last.calls[i].m = "DELETE" /\ last.calls[i].status = 500) =>
                Len(last.calls) = i /\ last.res = "error" /\ st.present

\* a workflow delete whose first DELETE was answered 500
C24_Answered500 ==
    /\ last.op = "delete"
    /\ Len(last.calls) = 2
    /\ last.calls[2].m = "DELETE" /\ last.calls[2].status = 500

(***************************************************************************)
(* Claims about the version field (SpecOps).                               *)
(***************************************************************************)
\* the version field is a number, integral and at least 1
IsVersion(v) == v.t = "num" /\ ~v.half /\ v.n >= 1

C25_VersionFieldStep ==
    /\ (last' # last /\ last'.op \in {"create", "update"}) =>
         LET plan == last'.plan
         IN  IF "version" \notin DOMAIN plan THEN last'.mode = "auto"
             ELSE IF IsVersion(plan["version"])
             THEN /\ last'.mode = "manual"
                  /\ \A i \in 1..Len(last'.calls) :
                       last'.calls[i].m = "PUT" =>
                           /\ last'.calls[i].v = plan["version"].n
                           /\ last'.calls[i].body["version"] = plan["version"]
             ELSE /\ last'.mode = "malformed"
                  /\ last'.res = "error"
                  /\ Writes(last'.calls) = <<>>
                  /\ srv' = srv /\ st' = st
    /\ (last' # last /\ last'.op = "read"
            /\ "version" \in DOMAIN st.manifest /\ ~IsVersion(st.manifest["version"])) =>
         last'.res = "error" /\ st' = st

\* C25: a proposed workflow manifest without a version key is handled in
\* auto mode; with a version that is an integer of 1 or more in manual mode,
\* and what it writes it writes under that number; with a version that is no
\* number, a fraction or below 1 create and update fail and write nothing, and
\* a read of a tracked manifest with such a version fails.
C25_VersionField == [][C25_VersionFieldStep]_vars

\* a create refused for a version that is a fraction
C25_Witness ==
    /\ last.op = "create" /\ last.res = "error"
    /\ "version" \in DOMAIN last.plan
    /\ last.plan["version"] = Num(1, TRUE)
    /\ last.calls = <<>>
    /\ DOMAIN srv # {}

\* a read refused for a tracked version that is a string
C25_ReadRefused ==
    /\ last.op = "read" /\ last.res = "error"
    /\ st.present
    /\ "version" \in DOMAIN st.manifest
    /\ st.manifest["version"] = S("1")
    /\ last.calls = <<>>

(***************************************************************************)
(* Claims about a read after a write (SpecDrift).                          *)
(***************************************************************************)
\* C26: the server stores the written manifest with keys added that are
\* server-owned, the version, nulls, empty containers or class defaults, in
\* the document and in each element of tasks; after a Read, ModifyPlan
\* judges the proposed manifest equal to the tracked one and plans no
\* update, for a task and for a workflow with and without a version.
C26_NoDriftAfterWrite ==
    planDone => respPlan = [manifest |-> stateManifest, version |-> planStateVersion]

\* a workflow in auto mode read back from a server that added a server-owned
\* field, a default, and a default in the element of tasks
C26_Witness ==
    /\ planDone
    /\ planClass = "workflow"
    /\ "version" \notin DOMAIN planManifest
    /\ "tasks" \in DOMAIN planManifest
    /\ planManifest["tasks"] = A(<<M([name |-> S("t1")])>>)
    /\ 1 \in DOMAIN srv
    /\ {"createTime", "schemaVersion"} \subseteq DOMAIN srv[1] \ DOMAIN planManifest
    /\ "type" \in DOMAIN srv[1]["tasks"].a[1].m

\* a task read back from a server that added a server-owned field and a default
C26_TaskReadBack ==
    /\ planDone
    /\ planClass = "task"
    /\ {"updatedBy", "retryCount"} \subseteq DOMAIN tsrv.manifest \ DOMAIN planManifest

(***************************************************************************)
(* Claims about what Read leaves in the tracked manifest (SpecOps).        *)
(***************************************************************************)
\* a read that succeeded; its one call holds the answer of the GET
ReadTask == tlast.op = "read" /\ tlast.res = "ok"

ReadWorkflow == last.op = "read" /\ last.res = "ok"

\* the two manifests hold the same under the key, or both lack it
AgreeOn(k, a, b) ==
    /\ k \in DOMAIN a <=> k \in DOMAIN b
    /\ k \in DOMAIN a => a[k] = b[k]

\* the keys of the answer with a primitive value that are not server-owned;
\* the version of a workflow in auto mode is the subject of C29
ScalarKeys(answer, state) ==
    {k \in DOMAIN answer \ auditableFieldsToIgnore :
        /\ isPrimitiveValue(answer[k])
        /\ k = "version" => "version" \in DOMAIN state}

\* the tracked manifest and the answer, both elided, agree on the scalar keys
ScalarsAgree(answer, state, defaults) ==
    \A k \in ScalarKeys(answer, state) :
        AgreeOn(k, cleanupManifestDefaults(state, defaults),
                   cleanupManifestDefaults(answer, defaults))

\* C27: after a successful Read the tracked manifest and the answer of the
\* server, both elided with the class defaults, agree on every top-level key
\* that is not server-owned and is primitive in the answer, also when the
\* answer holds the default and the tracked manifest held another value.
C27_ServerIsTruth ==
    /\ ReadTask => ScalarsAgree(tlast.calls[1].got, tst.manifest, defaultTaskDefValues)
    /\ ReadWorkflow => ScalarsAgree(last.calls[1].got, st.manifest, defaultWorkflowDefValues)

\* the keys of the answer whose value the elision keeps
KeptScalarKeys(answer, state, defaults) ==
    ScalarKeys(answer, state) \cap DOMAIN cleanupManifestDefaults(answer, defaults)

\* what the code does: a scalar of the answer that is no default is taken
\* over, under any other key of the answer the tracked manifest is as it was
C27_TruthUnlessDefault ==
    /\ ReadTask =>
         \A k \in KeptScalarKeys(tlast.calls[1].got, tst.manifest, defaultTaskDefValues) :
             AgreeOn(k, tst.manifest, tlast.calls[1].got)
    /\ ReadWorkflow =>
         \A k \in KeptScalarKeys(last.calls[1].got, st.manifest, defaultWorkflowDefValues) :
             AgreeOn(k, st.manifest, last.calls[1].got)

\* a task read whose answer holds the default retry count while the tracked
\* manifest holds another: the tracked manifest still holds the other
C27_DefaultNotTakenOver ==
    /\ ReadTask
    /\ tlast.calls[1].got["retryCount"] = N(3)
    /\ tst.manifest["retryCount"] = N(4)

(***************************************************************************)
(* The pairing of the tasks in the workflow merge (SpecMerge).             *)
(***************************************************************************)
\* the document-level merge rule between two mappings: a key of the source
\* that is primitive or that the target lacked holds the source's value,
\* every other key of the target holds what it held, and there is no other key
MergedByRule(from, into, to) ==
    /\ DOMAIN to = DOMAIN into \cup DOMAIN from
    /\ \A k \in DOMAIN to :
         IF k \in DOMAIN from /\ (isPrimitiveValue(from[k]) \/ k \notin DOMAIN into)
         THEN to[k] = from[k]
         ELSE to[k] = into[k]

\* the tasks sequence of the source; empty when the source has none
TasksOf(m) ==
    IF "tasks" \in DOMAIN m /\ m["tasks"].t = "arr" THEN m["tasks"].a ELSE <<>>

\* the workflow merge ran on a target with a tasks sequence that the
\* document-level merge leaves in place (the source holds no primitive
\* under tasks)
PairsTasks ==
    /\ mergeDone /\ mergeKind = "wf"
    /\ "tasks" \in DOMAIN intoMap /\ intoMap["tasks"].t = "arr"
    /\ "tasks" \in DOMAIN fromMap => ~isPrimitiveValue(fromMap["tasks"])

\* C28: the workflow merge pairs the tasks by position up to the shorter
\* length: the tasks sequence of the target keeps its length, its element i
\* is merged by the document-level rule with element i of the source when i
\* is below both lengths and both elements are mappings, every other element
\* of the target is unchanged (beyond the source's length, or an element
\* that is no mapping, which does not stop the pairing of later indices),
\* and no element of the source is appended.
C28_PairsByPosition ==
    PairsTasks =>
        /\ "tasks" \in DOMAIN toMap /\ toMap["tasks"].t = "arr"
        /\ Len(toMap["tasks"].a) = Len(intoMap["tasks"].a)
        /\ \A i \in 1..Len(intoMap["tasks"].a) :
             IF /\ i <= Len(TasksOf(fromMap))
                /\ TasksOf(fromMap)[i].t = "map"
                /\ intoMap["tasks"].a[i].t = "map"
             THEN /\ toMap["tasks"].a[i].t = "map"
                  /\ MergedByRule(TasksOf(fromMap)[i].m, intoMap["tasks"].a[i].m,
                                  toMap["tasks"].a[i].m)
             ELSE toMap["tasks"].a[i] = intoMap["tasks"].a[i]

\* the first element of the source is no mapping and is skipped, the second
\* pair is merged all the same
C28_Witness ==
    /\ PairsTasks
    /\ TasksOf(fromMap) = <<S("x"), M([name |-> S("t2"), type |-> S("HTTP")])>>
    /\ intoMap["tasks"] = A(<<M([name |-> S("t1")]), M([name |-> S("t1")])>>)
    /\ toMap["tasks"] = A(<<M([name |-> S("t1")]),
                            M([name |-> S("t2"), type |-> S("HTTP")])>>)

\* the source is longer than the target: its second element is not appended
C28_LongerSource ==
    /\ PairsTasks
    /\ Len(TasksOf(fromMap)) = 2
    /\ Len(intoMap["tasks"].a) = 1
    /\ toMap["tasks"].a # intoMap["tasks"].a
    /\ Len(toMap["tasks"].a) = 1

\* the target is longer than the source: its second element is as it was
C28_LongerTarget ==
    /\ PairsTasks
    /\ Len(TasksOf(fromMap)) = 1
    /\ Len(intoMap["tasks"].a) = 2
    /\ toMap["tasks"].a[1] # intoMap["tasks"].a[1]
    /\ toMap["tasks"].a[2] = intoMap["tasks"].a[2]

(***************************************************************************)
(* The version mode across a read (SpecOps).                               *)
(***************************************************************************)
C29_ReadStep ==
    (last.op = "none" /\ last'.op = "read" /\ last'.res = "ok") =>
        /\ st'.version = serverLatest(srv)
        /\ IF "version" \in DOMAIN st.manifest
           THEN /\ "version" \in DOMAIN st'.manifest
                /\ st'.manifest["version"] = N(serverLatest(srv))
           ELSE "version" \notin DOMAIN st'.manifest

\* C29: a successful Read of a workflow keeps the version mode: a tracked
\* manifest without a version key has none afterwards while the tracked
\* version is the server's latest; a tracked manifest with a version key
\* holds the server's latest version under it, which is also the tracked
\* version.
C29_ReadKeepsMode == [][C29_ReadStep]_vars

\* auto mode: the server's latest version 2 was read, the tracked version
\* follows and the manifest has no version key
C29_Witness ==
    /\ ReadWorkflow
    /\ DOMAIN srv = {1, 2}
    /\ "version" \notin DOMAIN st.manifest
    /\ st.version = 2

\* manual mode: the manifest holds the server's latest version 3
C29_ManualFollows ==
    /\ ReadWorkflow
    /\ 3 \in DOMAIN srv
    /\ "version" \in DOMAIN st.manifest
    /\ st.manifest["version"] = N(3)
    /\ st.version = 3

(***************************************************************************)
(* A 404 to a read or to the write of an update (SpecOps).                 *)
(***************************************************************************)
\* call i of the operation is the GET of a read or the PUT of an update and
\* was answered 404
NotFoundAt(operation, i) ==
    /\ i \in 1..Len(operation.calls)
    /\ operation.calls[i].status = 404
    /\ \/ operation.op = "read" /\ operation.calls[i].m = "GET"
       \/ operation.op = "update" /\ operation.calls[i].m = "PUT"

\* the operation ended at call i, without an error, with nothing tracked
GoneAt(operation, state, i) ==
    /\ operation.res = "removed"
    /\ state = NoState
    /\ i = Len(operation.calls)

\* C30: when the GET of a Read or the PUT of an Update is answered 404, for
\* a task definition and for a workflow definition, the resource is removed
\* from the tracked state, no error is reported and the operation issues no
\* further remote call.
C30_NotFoundMeansGone ==
    /\ \A i \in 1..Len(last.calls) : NotFoundAt(last, i) => GoneAt(last, st, i)
    /\ \A i \in 1..Len(tlast.calls) : NotFoundAt(tlast, i) => GoneAt(tlast, tst, i)

\* a workflow read from a server that holds no version of it
C30_Witness ==
    /\ last.op = "read"
    /\ NotFoundAt(last, 1)
    /\ srv = EmptyMap
    /\ ~st.present

\* the PUT of a manual update answered 404 after its validation GET
C30_UpdateGone ==
    /\ last.op = "update"
    /\ NotFoundAt(last, 2)
    /\ ~st.present

\* a task read answered 404
C30_TaskReadGone == tlast.op = "read" /\ NotFoundAt(tlast, 1) /\ ~tst.present

\* the PUT of a task update answered 404
C30_TaskUpdateGone == tlast.op = "update" /\ NotFoundAt(tlast, 1) /\ ~tst.present

====
